---- MODULE Spec2Model ----
(***************************************************************************)
(* Model of aidevelopertool.pipeline.manager: Task, Pipeline and the       *)
(* dependency-ordered scheduling loop of Pipeline.execute().               *)
(*                                                                         *)
(* A pipeline's task mapping is a Python dict, which keeps insertion       *)
(* order; it is modelled as a sequence of task records, one per key.       *)
(* A work function is modelled by what its call can do to the scheduler:   *)
(* it writes its task's name into the shared context and then returns      *)
(* ("ok"), raises an Exception ("raise"), or raises a BaseException that   *)
(* is not an Exception, such as SystemExit or KeyboardInterrupt ("exit").  *)
(***************************************************************************)
EXTENDS Integers, Sequences, FiniteSets, TLC

\* ------------------------------------------------------------------ bounds
Names     == {"A", "B", "C", "D"}     \* task names of a built pipeline
EditNames == {"A", "B", "C"}          \* names add_task / remove_task are called with
EditDepNames == {"A", "B"}           \* names in a dependency list given to add_task
DepNames  == {"A", "B", "C"}          \* names in a dependency list of a built pipeline
MaxDeps   == 2                        \* longest dependency list
MaxEdits  == 3                        \* add_task and remove_task calls in one behaviour
MaxRuns   == 2                        \* execute() calls in one behaviour
MaxPipelines == 3                     \* create_pipeline calls in one behaviour
PipelineNames == {"p", "q"}           \* names given to the PipelineManager
SmallNames == {"A", "B"}              \* task names of a two-task pipeline
SmallDepNames == {"A", "B", "C"}      \* names in its dependency lists
MaxMilestones == 3              \* add_milestone calls
MaxListeners == 2               \* add_listener calls
MaxEvents == 3                  \* log_event calls
MaxHistory == 2                       \* entries of context_history
ContextIds == {"c1"}            \* ids given to the ContextManager
DataKeys == {<<"str", "x">>, <<"int", 1>>}  \* keys of context data: "x" and 1
DataValues == {1, 2}                  \* values of context data

\* ------------------------------------------------------- TaskStatus (l.10-16)
PENDING   == "pending"
RUNNING   == "running"
COMPLETED == "completed"
FAILED    == "failed"
SKIPPED   == "skipped"
TaskStatus == {PENDING, RUNNING, COMPLETED, FAILED, SKIPPED}

\* Outcomes of one call of a work function.
Outcomes == {"ok", "raise", "exit"}

\* ----------------------------------------------------------- sequence helpers
Range(s) == {s[i] : i \in 1..Len(s)}

RECURSIVE SeqsUpTo(_, _)
SeqsUpTo(S, n) ==
    IF n = 0 THEN {<<>>}
    ELSE LET shorter == SeqsUpTo(S, n - 1)
         IN  shorter \cup {Append(s, x) : s \in shorter, x \in S}

\* Dependency lists a caller passes: lists over S of length <= n, without
\* repetition, in alphabetical order.
NameRank(n) == CASE n = "A" -> 1 [] n = "B" -> 2 [] n = "C" -> 3 [] OTHER -> 4

DepLists(S, n) ==
    {s \in SeqsUpTo(S, n) :
        \A i \in 1..Len(s) : \A j \in 1..Len(s) :
            i < j => NameRank(s[i]) < NameRank(s[j])}

\* Orders in which the four tasks of a built pipeline were added. A, B and C
\* are interchangeable in DepLists, so it is D's place among them that varies.
BuiltOrders ==
    {<<"A", "B", "C", "D">>, <<"A", "B", "D", "C">>,
     <<"A", "D", "B", "C">>, <<"D", "A", "B", "C">>}

\* ------------------------------------------------------------ Task (l.19-96)
\* Task.__init__: a new task is Pending, without result, error or timestamps.
Task(name, dependencies) ==
    [name |-> name, dependencies |-> dependencies, status |-> PENDING,
     result |-> "None", error |-> "None",
     started_at |-> "None", completed_at |-> "None"]

\* Variant of can_run that ignores the dependency list.
can_run_always(task, completed_tasks) == TRUE

\* Task.can_run: all(dep in completed_tasks for dep in self.dependencies)
can_run(task, completed_tasks) ==
    \A i \in 1..Len(task.dependencies) :
        task.dependencies[i] \in Range(completed_tasks)

\* Variant of Task_start that leaves the status alone.
Task_start_status_kept(task) ==
    [task EXCEPT !.started_at = "time"]

\* Task.execute, first half: status Running, start timestamp, then the call.
Task_start(task) ==
    [task EXCEPT !.status = RUNNING, !.started_at = "time"]

\* Variant of Task_finish whose except clause does not set the status.
Task_finish_status_lost(task, outcome) ==
    CASE outcome = "ok" ->
            [task EXCEPT !.result = "value", !.status = COMPLETED,
                         !.completed_at = "time"]
      [] outcome = "raise" ->
            [task EXCEPT !.error = "str(e)", !.completed_at = "time"]
      [] OTHER ->
            [task EXCEPT !.completed_at = "time"]

\* Variant of Task_finish whose except clause sets the task Pending again.
Task_finish_retry(task, outcome) ==
    CASE outcome = "ok" ->
            [task EXCEPT !.result = "value", !.status = COMPLETED,
                         !.completed_at = "time"]
      [] outcome = "raise" ->
            [task EXCEPT !.status = PENDING, !.error = "str(e)",
                         !.completed_at = "time"]
      [] OTHER ->
            [task EXCEPT !.completed_at = "time"]

\* Task.execute, second half: what try / except Exception / finally leave.
\* "exit" is not an Exception: only the finally clause runs.
Task_finish(task, outcome) ==
    CASE outcome = "ok" ->
            [task EXCEPT !.result = "value", !.status = COMPLETED,
                         !.completed_at = "time"]
      [] outcome = "raise" ->
            [task EXCEPT !.status = FAILED, !.error = "str(e)",
                         !.completed_at = "time"]
      [] OTHER ->
            [task EXCEPT !.completed_at = "time"]

\* ------------------------------------------------- the task mapping (a dict)
Keys(ts) == {ts[i].name : i \in 1..Len(ts)}

IndexOf(ts, name) == CHOOSE i \in 1..Len(ts) : ts[i].name = name

Get(ts, name) == ts[IndexOf(ts, name)]

\* self.tasks[task.name] = task : an existing key keeps its position.
DictSet(ts, task) ==
    IF task.name \in Keys(ts)
    THEN [ts EXCEPT ![IndexOf(ts, task.name)] = task]
    ELSE Append(ts, task)

\* Variant of DictDel that also deletes the entries that list the name among
\* their dependencies.
DictDel_cascade(ts, name) ==
    LET stays(t) == t.name # name /\ name \notin Range(t.dependencies)
    IN  SelectSeq(ts, stays)

\* del self.tasks[name]
DictDel(ts, name) ==
    LET i == IndexOf(ts, name)
    IN  SubSeq(ts, 1, i - 1) \o SubSeq(ts, i + 1, Len(ts))

\* ---------------------------------------------- Pipeline.validate (l.132-171)
\* Variant of the search in which the recursive calls share one visited set
\* (no visited.copy()).
RECURSIVE SharedSearch(_, _, _), SharedSearchDeps(_, _, _)
SharedSearch(ts, task_name, visited) ==
    IF task_name \in visited THEN [found |-> TRUE, visited |-> visited]
    ELSE IF task_name \notin Keys(ts)
         THEN [found |-> FALSE, visited |-> visited \cup {task_name}]
         ELSE SharedSearchDeps(ts, ts[CHOOSE i \in 1..Len(ts) :
                                        ts[i].name = task_name].dependencies,
                               visited \cup {task_name})
SharedSearchDeps(ts, deps, visited) ==
    IF deps = <<>> THEN [found |-> FALSE, visited |-> visited]
    ELSE LET first == SharedSearch(ts, Head(deps), visited)
         IN  IF first.found THEN first
             ELSE SharedSearchDeps(ts, Tail(deps), first.visited)

has_circular_dependency_shared(ts, task_name, visited) ==
    SharedSearch(ts, task_name, visited).found

\* Variant of the search that only looks at the task's own dependency list.
has_circular_dependency_self(ts, task_name, visited) ==
    /\ task_name \in Keys(ts)
    /\ task_name \in Range(ts[CHOOSE i \in 1..Len(ts) :
                                ts[i].name = task_name].dependencies)

\* _has_circular_dependency(task_name, visited): every recursive call gets its
\* own copy of visited, so visited holds the names on the path from the start.
RECURSIVE has_circular_dependency(_, _, _)
has_circular_dependency(ts, task_name, visited) ==
    IF task_name \in visited THEN TRUE
    ELSE IF task_name \notin Keys(ts) THEN FALSE
    ELSE LET deps == Get(ts, task_name).dependencies
         IN  \E i \in 1..Len(deps) :
                has_circular_dependency(ts, deps[i], visited \cup {task_name})

\* the deepest nesting of calls that _has_circular_dependency(task_name,
\* visited) makes when no call returns early
RECURSIVE RecursionDepth(_, _, _)
RecursionDepth(ts, task_name, visited) ==
    IF task_name \in visited \/ task_name \notin Keys(ts) THEN 1
    ELSE LET deps == Get(ts, task_name).dependencies
             below == {RecursionDepth(ts, deps[i], visited \cup {task_name}) :
                          i \in 1..Len(deps)}
         IN  1 + (IF below = {} THEN 0
                  ELSE CHOOSE m \in below : \A k \in below : k <= m)

CircularMsg(task_name) ==
    <<"Circular dependency detected for task: ", task_name>>

\* Variant of MissingMsg with the two names in each other's place.
MissingMsg_swapped(task_name, dep) ==
    <<"Task '", dep, "' depends on missing task '", task_name, "'">>

MissingMsg(task_name, dep) ==
    <<"Task '", task_name, "' depends on missing task '", dep, "'">>

\* Variant of MissingOf that reports each missing name of a task once.
MissingOf_once(ts, task_name, deps) ==
    LET first(i) == /\ deps[i] \notin Keys(ts)
                    /\ \A j \in 1..(i - 1) : deps[j] # deps[i]
        is == SelectSeq([i \in 1..Len(deps) |-> i], first)
    IN  [k \in 1..Len(is) |-> MissingMsg(task_name, deps[is[k]])]

\* the second loop of validate for one task: one message per missing entry
RECURSIVE MissingOf(_, _, _)
MissingOf(ts, task_name, deps) ==
    IF deps = <<>> THEN <<>>
    ELSE (IF Head(deps) \notin Keys(ts)
          THEN <<MissingMsg(task_name, Head(deps))>> ELSE <<>>)
         \o MissingOf(ts, task_name, Tail(deps))

RECURSIVE CircularErrors(_, _)
CircularErrors(ts, i) ==
    IF i > Len(ts) THEN <<>>
    ELSE (IF has_circular_dependency(ts, ts[i].name, {})
          THEN <<CircularMsg(ts[i].name)>> ELSE <<>>)
         \o CircularErrors(ts, i + 1)

RECURSIVE MissingErrors(_, _)
MissingErrors(ts, i) ==
    IF i > Len(ts) THEN <<>>
    ELSE MissingOf(ts, ts[i].name, ts[i].dependencies)
         \o MissingErrors(ts, i + 1)

validate(ts) == CircularErrors(ts, 1) \o MissingErrors(ts, 1)

\* ------------------------------------------------------------------- state
VARIABLES
    tasks,            \* Pipeline.tasks: the dict, in insertion order
    execution_order,  \* Pipeline.execution_order
    context,          \* Pipeline.context: the keys it holds
    context_obj,      \* Pipeline.context: which dict object it refers to
    pc,               \* "idle", or the position inside Pipeline.execute
    completed_tasks,  \* local of execute
    failed_tasks,     \* local of execute
    runnable_tasks,   \* local of execute: names still to run in this round
    result,           \* what the most recent call gave its caller
    invoked,          \* names whose work function this run has called, in order
    received,         \* the context each of those calls was given
    initial_context,  \* the argument of the most recent execute() call
    pre,              \* the pipeline as it was when this run was called
    edits,            \* add_task and remove_task calls so far
    runs,             \* execute calls so far, on the pipeline or on a task
    rounds,           \* rounds the most recent run has started
    pipelines,        \* PipelineManager.pipelines: the dict, in insertion order
    objects,          \* the fields of the manager's other Pipeline objects
    held,             \* which Pipeline object the variables above are the
                      \* fields of: its number, 0 for one no manager made
    created,          \* Pipeline objects the manager has constructed
    requested,        \* the name given to the most recent manager call
    contexts,         \* ContextManager.contexts: the dict, in insertion order
    context_history,  \* ContextManager.context_history
    auto_save,        \* ContextManager.auto_save
    dir_exists,       \* whether the directory storage_dir exists
    files,            \* the context files in storage_dir, by context id
    last_call,        \* the most recent call of a method of the
                      \* ContextManager or of the FeedbackTracker, with
                      \* its arguments
    within,           \* the id whose temp_context block the caller is in,
                      \* "" outside such a block
    components,       \* AIProject.components: the dict, in insertion order
    project_initialized,  \* AIProject._initialized
    milestones,       \* FeedbackTracker.milestones
    events,           \* FeedbackTracker.events
    listeners,        \* FeedbackTracker.listeners: how each callback ends
    notified          \* the listeners the most recent log_event called

vars == <<tasks, execution_order, context, context_obj, pc, completed_tasks,
          failed_tasks, runnable_tasks, result, invoked, received,
          initial_context, pre, edits, runs, rounds,
          pipelines, objects, held, created, requested,
          contexts, context_history, auto_save, dir_exists, files, last_call,
          within, components, project_initialized,
          milestones, events, listeners, notified>>

manager == <<pipelines, objects, held, created, requested>>

store == <<contexts, context_history, auto_save, dir_exists, files, last_call,
           within>>

project == <<components, project_initialized>>

tracker == <<milestones, events, listeners, notified>>

NoResult == [kind |-> "none", success |-> FALSE, errors |-> <<>>,
             completed_tasks |-> <<>>, failed_tasks |-> <<>>,
             execution_order |-> <<>>, context |-> {}]

NoRun == [tasks |-> <<>>, execution_order |-> <<>>, context |-> {},
          context_obj |-> <<"none", 0>>]

\* execute() called without an argument: initial_context is None
NoContext == [given |-> FALSE, keys |-> {}]

\* l.113: the dict that Pipeline.__init__ makes
InitDict == <<"init", 0>>

\* Pipeline.__init__ (l.102-113)
Constructed ==
    /\ tasks = <<>>
    /\ edits = 0

\* The pipeline that one add_task call per name of Names builds: the names in
\* any order, each task new (Pending) and with a dependency list of its own.
BuiltPipelines ==
    {[i \in 1..Len(order) |-> Task(order[i], deps[order[i]])] :
        order \in BuiltOrders, deps \in [Names -> DepLists(DepNames, MaxDeps)]}

Built ==
    /\ tasks \in BuiltPipelines
    /\ edits = Cardinality(Names)

\* A pipeline of two tasks, each with at most one dependency. "C" is not
\* among them: a task that names it has a missing dependency until a task
\* of that name is added.
SmallPipelines ==
    {<<Task("A", deps["A"]), Task("B", deps["B"])>> :
        deps \in [SmallNames -> DepLists(SmallDepNames, 1)]}

BuiltSmall ==
    /\ tasks \in SmallPipelines
    /\ edits = Cardinality(SmallNames)

\* l.112-113 and the ghosts of a pipeline on which execute was never called
NeverRun ==
    /\ execution_order = <<>>
    /\ context = {}
    /\ context_obj = InitDict
    /\ pc = "idle"
    /\ completed_tasks = <<>>
    /\ failed_tasks = <<>>
    /\ runnable_tasks = <<>>
    /\ result = NoResult
    /\ invoked = <<>>
    /\ rounds = 0
    /\ received = <<>>
    /\ initial_context = NoContext
    /\ pre = NoRun
    /\ runs = 0

\* a pipeline that its owner constructed, not a PipelineManager
Unmanaged ==
    /\ pipelines = <<>>
    /\ objects = <<>>
    /\ held = 0
    /\ created = 0
    /\ requested = ""

NoFile == [exists |-> FALSE, text |-> <<>>]

NoCall == [op |-> "none"]

\* no ContextManager: nothing stored, nothing called
NoStore ==
    /\ contexts = <<>>
    /\ context_history = <<>>
    /\ auto_save = TRUE
    /\ dir_exists = FALSE
    /\ files = [id \in ContextIds |-> NoFile]
    /\ last_call = NoCall
    /\ within = ""

\* no AIProject
NoProject ==
    /\ components = <<>>
    /\ project_initialized = FALSE

\* no FeedbackTracker
NoTracker ==
    /\ milestones = <<>>
    /\ events = <<>>
    /\ listeners = <<>>
    /\ notified = <<>>

Init ==
    (Constructed \/ Built) /\ NeverRun /\ Unmanaged /\ NoStore /\ NoProject
    /\ NoTracker

\* add_task and remove_task return None: the record of the last run is dropped.
Forget ==
    /\ result' = NoResult
    /\ invoked' = <<>>
    /\ rounds' = 0
    /\ received' = <<>>
    /\ initial_context' = NoContext
    /\ pre' = NoRun

\* ------------------------------------------- Pipeline.add_task / remove_task
add_task(name, dependencies) ==
    /\ pc = "idle"
    /\ edits < MaxEdits
    /\ tasks' = DictSet(tasks, Task(name, dependencies))
    /\ edits' = edits + 1
    /\ Forget
    /\ UNCHANGED <<manager, store, project, tracker>>
    /\ UNCHANGED <<execution_order, context, context_obj, pc,
                   completed_tasks, failed_tasks, runnable_tasks, runs>>

remove_task(name) ==
    /\ pc = "idle"
    /\ edits < MaxEdits
    /\ tasks' = IF name \in Keys(tasks) THEN DictDel(tasks, name) ELSE tasks
    /\ edits' = edits + 1
    /\ Forget
    /\ UNCHANGED <<manager, store, project, tracker>>
    /\ UNCHANGED <<execution_order, context, context_obj, pc,
                   completed_tasks, failed_tasks, runnable_tasks, runs>>

\* -------------------------------------------- Pipeline.execute (l.173-229)
\* The argument of execute: None, or a mapping with the given keys.
InitialContexts ==
    {[given |-> FALSE, keys |-> {}],
     [given |-> TRUE,  keys |-> {}]}

\* ... or a mapping the caller has put an entry in
SeededContexts == InitialContexts \cup {[given |-> TRUE, keys |-> {"seed"}]}

\* Variant of OrEmpty that keeps the stored context when none is given.
OrEmpty_reuse(ic) ==
    IF ic.given /\ ic.keys # {}
    THEN ic.keys ELSE context

\* initial_context or {} : None and the empty mapping are both falsy.
OrEmpty(ic) ==
    IF ic.given /\ ic.keys # {}
    THEN ic.keys ELSE {}

\* Variant of OrEmptyObject that stores a copy of the caller's mapping.
OrEmptyObject_copy(ic, run) == <<"new", run>>

\* ... and which object that expression gives in the call numbered run: the
\* caller's mapping when it is truthy, else the dict the {} display makes.
OrEmptyObject(ic, run) ==
    IF ic.given /\ ic.keys # {}
    THEN <<"caller", run>> ELSE <<"new", run>>

ValidationFailure(errors) ==
    [kind |-> "errors", success |-> FALSE, errors |-> errors,
     completed_tasks |-> <<>>, failed_tasks |-> <<>>,
     execution_order |-> <<>>, context |-> {}]

\* Variant of ExecutionResult whose execution_order also lists the tasks
\* that failed.
ExecutionResult_with_failed(completed, failed, order, ctx) ==
    [kind |-> "result", success |-> (Len(failed) = 0), errors |-> <<>>,
     completed_tasks |-> completed, failed_tasks |-> failed,
     execution_order |-> order \o failed, context |-> ctx]

\* Variant of ExecutionResult whose success flag looks at completed_tasks.
ExecutionResult_success_if_completed(completed, failed, order, ctx) ==
    [kind |-> "result", success |-> (Len(completed) > 0), errors |-> <<>>,
     completed_tasks |-> completed, failed_tasks |-> failed,
     execution_order |-> order, context |-> ctx]

\* the dict returned at l.223-229
ExecutionResult(completed, failed, order, ctx) ==
    [kind |-> "result", success |-> (Len(failed) = 0), errors |-> <<>>,
     completed_tasks |-> completed, failed_tasks |-> failed,
     execution_order |-> order, context |-> ctx]

Raised == [NoResult EXCEPT !.kind = "raised"]

\* Variant of Rejects: the errors are ignored.
Rejects_never(errors) == FALSE

\* l.188: if errors
Rejects(errors) == errors # <<>>

\* Variant of Stuck: an empty round is not noticed.
Stuck_never(round) == FALSE

\* l.203: if not runnable_tasks
Stuck(round) == round = <<>>

\* Variant of Propagates: no handler around task.execute.
Propagates_all(outcome) == outcome # "ok"

\* l.220: except Exception lets through what is not an Exception
Propagates(outcome) == outcome = "exit"

\* the fields of the Pipeline object that a call is made on
Loaded ==
    [tasks |-> tasks, execution_order |-> execution_order,
     context |-> context, context_obj |-> context_obj]

\* Variant of KeptOrder in which a run starts with an empty list.
KeptOrder_reset(order) == <<>>

\* l.182-195: execute assigns self.context and its locals, and nothing to
\* self.execution_order, which keeps what earlier runs appended
KeptOrder(order) == order

\* l.182-194 for the Pipeline object with the fields self: set the context,
\* validate, return the errors or enter the loop
Pipeline_execute(self, ic) ==
    /\ runs' = runs + 1
    /\ pre' = self
    /\ initial_context' = ic
    /\ context' = OrEmpty(ic)
    /\ context_obj' = OrEmptyObject(ic, runs + 1)
    /\ completed_tasks' = <<>>
    /\ failed_tasks' = <<>>
    /\ runnable_tasks' = <<>>
    /\ invoked' = <<>>
    /\ rounds' = 0
    /\ received' = <<>>
    /\ LET errors == validate(self.tasks)
       IN  IF Rejects(errors)
           THEN /\ result' = ValidationFailure(errors)
                /\ pc' = "idle"
           ELSE /\ result' = NoResult
                /\ pc' = "loop"
    /\ tasks' = self.tasks
    /\ execution_order' = KeptOrder(self.execution_order)
    /\ UNCHANGED edits

\* Pipeline.execute called by the owner of the pipeline
execute_begin(ic) ==
    /\ pc = "idle"
    /\ runs < MaxRuns
    /\ Pipeline_execute(Loaded, ic)
    /\ UNCHANGED <<manager, store, project, tracker>>

\* Variant of Runnable for which a dependency is also met by a task that an
\* earlier run completed.
Runnable_counting_earlier(ts, completed) ==
    LET done == Range(completed)
                    \cup {ts[i].name : i \in {k \in 1..Len(ts) :
                                                  ts[k].status = COMPLETED}}
        ok(t) == t.status = PENDING /\ Range(t.dependencies) \subseteq done
        sel == SelectSeq(ts, ok)
    IN  [i \in 1..Len(sel) |-> sel[i].name]

\* Variant of Runnable that runs a round in the alphabetical order of the
\* names, not in the order of the dict.
Runnable_by_name(ts, completed) ==
    LET S == {ts[i].name : i \in {k \in 1..Len(ts) :
                  ts[k].status = PENDING /\ can_run(ts[k], completed)}}
    IN  [i \in 1..Cardinality(S) |->
            CHOOSE n \in S :
                Cardinality({m \in S : NameRank(m) < NameRank(n)}) = i - 1]

\* Variant of Runnable that selects every task that is not Completed.
Runnable_not_completed(ts, completed) ==
    LET ok(t) == t.status # COMPLETED /\ can_run(t, completed)
        sel == SelectSeq(ts, ok)
    IN  [i \in 1..Len(sel) |-> sel[i].name]

\* Variant of Runnable that selects on the dependencies alone, not on status.
Runnable_any_status(ts, completed) ==
    LET ok(t) == can_run(t, completed)
        sel == SelectSeq(ts, ok)
    IN  [i \in 1..Len(sel) |-> sel[i].name]

\* l.198-201
Runnable(ts, completed) ==
    LET ok(t) == t.status = PENDING /\ can_run(t, completed)
        sel == SelectSeq(ts, ok)
    IN  [i \in 1..Len(sel) |-> sel[i].name]

\* Variant of SkipPending that marks the remaining tasks Failed.
SkipPending_as_failed(ts) ==
    [i \in 1..Len(ts) |->
        IF ts[i].status = PENDING THEN [ts[i] EXCEPT !.status = FAILED]
        ELSE ts[i]]

\* Variant of SkipPending that leaves the remaining tasks as they are.
SkipPending_none(ts) == ts

\* l.205-212
SkipPending(ts) ==
    [i \in 1..Len(ts) |->
        IF ts[i].status = PENDING THEN [ts[i] EXCEPT !.status = SKIPPED]
        ELSE ts[i]]

\* l.223-229: execute returns; its locals end with the call
Return ==
    /\ result' = ExecutionResult(completed_tasks, failed_tasks,
                                 execution_order, context)
    /\ pc' = "idle"
    /\ completed_tasks' = <<>>
    /\ failed_tasks' = <<>>
    /\ runnable_tasks' = <<>>

\* l.197-213: the loop test, the round's selection, the sweep to Skipped
execute_loop ==
    /\ pc = "loop"
    /\ IF Len(completed_tasks) + Len(failed_tasks) < Len(tasks)
       THEN LET round == Runnable(tasks, completed_tasks)
            IN  IF Stuck(round)
                THEN /\ tasks' = SkipPending(tasks)
                     /\ Return
                     /\ UNCHANGED rounds
                ELSE /\ runnable_tasks' = round
                     /\ rounds' = rounds + 1
                     /\ pc' = IF round = <<>> THEN "loop" ELSE "round"
                     /\ UNCHANGED <<tasks, result, completed_tasks,
                                    failed_tasks>>
       ELSE /\ Return
            /\ UNCHANGED <<tasks, rounds>>
    /\ UNCHANGED <<manager, store, project, tracker>>
    /\ UNCHANGED <<execution_order, context, context_obj, invoked, received,
                   initial_context, pre, edits, runs>>

\* Variant of Argument: each call is given a copy of the context.
Argument_copy(obj, call) == <<"copy", call>>

\* l.217: task.execute(self.context) passes the reference held in self.context
Argument(obj, call) == obj

\* l.215-217 with Task.execute l.70-74: the next task of the round is set
\* Running and its work function is called with the shared context; what the
\* function writes goes into the dict it was given.
execute_call ==
    /\ pc = "round"
    /\ runnable_tasks # <<>>
    /\ LET name == Head(runnable_tasks)
           given == Argument(context_obj, Len(invoked) + 1)
       IN  /\ tasks' = DictSet(tasks, Task_start(Get(tasks, name)))
           /\ invoked' = Append(invoked, name)
           /\ received' = Append(received,
                  [obj |-> given, keys |-> context, round |-> rounds])
           /\ context' = IF given = context_obj
                         THEN context \cup {name} ELSE context
    /\ pc' = "call"
    /\ UNCHANGED <<manager, store, project, tracker>>
    /\ UNCHANGED <<execution_order, context_obj, completed_tasks,
                   failed_tasks, runnable_tasks, result, initial_context,
                   pre, edits, runs, rounds>>

\* Variant of RestOfRound that selects again after each task: a task that
\* became runnable joins the round under way.
RestOfRound_recomputed(round, ts, completed) ==
    LET joins(n) == n \notin Range(Tail(round))
    IN  Tail(round) \o SelectSeq(Runnable(ts, completed), joins)

\* l.215: the for loop walks the list that l.198-201 built before the
\* round; what the round's tasks complete does not add to it
RestOfRound(round, ts, completed) == Tail(round)

\* l.216-221 with Task.execute l.74-82: the call ends; the pipeline's
\* except Exception catches what Task.execute re-raised, nothing else.
execute_task_done(outcome) ==
    /\ pc = "call"
    /\ LET name == Head(runnable_tasks)
       IN  tasks' = DictSet(tasks, Task_finish(Get(tasks, name), outcome))
    /\ IF Propagates(outcome)
       THEN /\ pc' = "idle"
            /\ result' = Raised
            /\ completed_tasks' = <<>>
            /\ failed_tasks' = <<>>
            /\ runnable_tasks' = <<>>
            /\ UNCHANGED execution_order
       ELSE /\ IF outcome = "ok"
               THEN /\ completed_tasks' =
                            Append(completed_tasks, Head(runnable_tasks))
                    /\ execution_order' =
                            Append(execution_order, Head(runnable_tasks))
                    /\ UNCHANGED failed_tasks
               ELSE /\ failed_tasks' =
                            Append(failed_tasks, Head(runnable_tasks))
                    /\ UNCHANGED <<completed_tasks, execution_order>>
            /\ LET name == Head(runnable_tasks)
                   after == DictSet(tasks,
                                Task_finish(Get(tasks, name), outcome))
                   done == IF outcome = "ok"
                           THEN Append(completed_tasks, name)
                           ELSE completed_tasks
                   rest == RestOfRound(runnable_tasks, after, done)
               IN  /\ runnable_tasks' = rest
                   /\ pc' = IF rest = <<>> THEN "loop" ELSE "round"
            /\ UNCHANGED result
    /\ UNCHANGED <<manager, store, project, tracker>>
    /\ UNCHANGED <<context, context_obj, invoked, received, initial_context,
                   pre, edits, runs, rounds>>

ExecuteStep ==
    \/ execute_loop
    \/ execute_call
    \/ \E outcome \in Outcomes : execute_task_done(outcome)

Next ==
    \/ \E name \in EditNames : \E deps \in DepLists(EditDepNames, MaxDeps) :
          add_task(name, deps)
    \/ \E name \in EditNames : remove_task(name)
    \/ \E ic \in InitialContexts : execute_begin(ic)
    \/ ExecuteStep

Spec == Init /\ [][Next]_vars

\* execute() is one synchronous call: once it is entered, the interpreter
\* takes its next step, and a work function that was called returns or raises.
FairSpec == Spec /\ WF_vars(ExecuteStep)

\* The life of a small pipeline, valid or not, run with every kind of
\* initial_context.
ContextInit ==
    BuiltSmall /\ NeverRun /\ Unmanaged /\ NoStore /\ NoProject /\ NoTracker

ContextNext ==
    \/ \E name \in EditNames : \E deps \in DepLists(EditDepNames, MaxDeps) :
          add_task(name, deps)
    \/ \E name \in EditNames : remove_task(name)
    \/ \E ic \in SeededContexts : execute_begin(ic)
    \/ ExecuteStep

ContextSpec == ContextInit /\ [][ContextNext]_vars

\* ------------------------------------- Task.can_run, Task.execute called directly
\* Lists a caller may pass to can_run.
CompletedLists == DepLists(SmallDepNames, 2)

\* what a call of can_run gives its caller, with the arguments of the call
CanRunAnswer(name, completed, value) ==
    [kind |-> "can_run", name |-> name, completed_tasks |-> completed,
     value |-> value]

\* Variant of Task_can_run that also marks a task it finds runnable.
Task_can_run_marks(name, completed) ==
    /\ pc = "idle"
    /\ result' = CanRunAnswer(name, completed,
                               can_run(Get(tasks, name), completed))
    /\ tasks' = IF can_run(Get(tasks, name), completed)
                THEN DictSet(tasks, Task_start(Get(tasks, name))) ELSE tasks
    /\ UNCHANGED <<manager, store, project, tracker>>
    /\ UNCHANGED <<execution_order, context, context_obj, pc,
                   completed_tasks, failed_tasks, runnable_tasks, invoked,
                   received, initial_context, pre, edits, runs, rounds>>

\* Task.can_run (l.50-59): one expression, no assignment
Task_can_run(name, completed) ==
    /\ pc = "idle"
    /\ result' = CanRunAnswer(name, completed,
                               can_run(Get(tasks, name), completed))
    /\ UNCHANGED <<manager, store, project, tracker>>
    /\ UNCHANGED <<tasks, execution_order, context, context_obj, pc,
                   completed_tasks, failed_tasks, runnable_tasks, invoked,
                   received, initial_context, pre, edits, runs, rounds>>

\* how a call of Task.execute ends for its caller: l.76 returns self.result,
\* l.80 re-raises, and what is not an Exception passes through l.77
TaskReturned(task) == [kind |-> "returned", value |-> task.result]
TaskRaised(outcome) == [kind |-> "raised", value |-> outcome]

\* Task.execute (l.70-74) called by the owner of the task, whatever the
\* task's status: Running, the start time, then the work function is called
\* with the dict the caller passes (here the one the pipeline holds).
Task_execute_begin(name) ==
    /\ pc = "idle"
    /\ runs < MaxRuns
    /\ runs' = runs + 1
    /\ pre' = [tasks |-> tasks, execution_order |-> execution_order,
               context |-> context, context_obj |-> context_obj]
    /\ tasks' = DictSet(tasks, Task_start(Get(tasks, name)))
    /\ invoked' = <<name>>
    /\ rounds' = 0
    /\ received' = <<[obj |-> context_obj, keys |-> context, round |-> 0]>>
    /\ context' = context \cup {name}
    /\ result' = NoResult
    /\ pc' = "task"
    /\ UNCHANGED <<manager, store, project, tracker>>
    /\ UNCHANGED <<execution_order, context_obj, completed_tasks,
                   failed_tasks, runnable_tasks, initial_context, edits>>

\* Task.execute (l.74-82): the work function returned or raised
Task_execute_end(outcome) ==
    /\ pc = "task"
    /\ LET task == Task_finish(Get(tasks, invoked[1]), outcome)
       IN  /\ tasks' = DictSet(tasks, task)
           /\ result' = IF outcome = "ok" THEN TaskReturned(task)
                                          ELSE TaskRaised(outcome)
    /\ pc' = "idle"
    /\ UNCHANGED <<manager, store, project, tracker>>
    /\ UNCHANGED <<execution_order, context, context_obj, completed_tasks,
                   failed_tasks, runnable_tasks, invoked, received,
                   initial_context, pre, edits, runs, rounds>>

\* Calls made on the tasks of a small pipeline by their owner.
TaskNext ==
    \/ \E name \in SmallNames : \E completed \in CompletedLists :
          Task_can_run(name, completed)
    \/ \E name \in SmallNames : Task_execute_begin(name)
    \/ \E outcome \in Outcomes : Task_execute_end(outcome)

TaskSpec == ContextInit /\ [][TaskNext]_vars

\* ------------------------------------------------ PipelineManager (l.247-357)
\* An entry of self.pipelines: the name and the Pipeline object it refers to.
Entry(name, pipeline) == [name |-> name, pipeline |-> pipeline]

\* Variant of Lookup that falls back on the first pipeline of the registry.
Lookup_or_first(ps, name) ==
    IF name \in Keys(ps) THEN Get(ps, name).pipeline
    ELSE IF ps # <<>> THEN ps[1].pipeline ELSE 0

\* self.pipelines.get(name): the Pipeline object, 0 for None
Lookup(ps, name) ==
    IF name \in Keys(ps) THEN Get(ps, name).pipeline ELSE 0

\* Pipeline(name, description): Pipeline.__init__ for the object numbered id
NewPipeline(id) ==
    [tasks |-> <<>>, execution_order |-> <<>>, context |-> {},
     context_obj |-> <<"init", id>>]

\* the fields of the Pipeline object numbered id
Fields(id) == IF id = held THEN Loaded ELSE objects[id]

\* the Pipeline objects that registry refers to
Registered(registry) == {registry[i].pipeline : i \in 1..Len(registry)}

\* The caller's next call is on the Pipeline object id, whose fields are
\* self; the objects that registry still refers to keep theirs, the others
\* are garbage.
Hold(id, self, registry) ==
    /\ held' = id
    /\ tasks' = self.tasks
    /\ execution_order' = self.execution_order
    /\ context' = self.context
    /\ context_obj' = self.context_obj
    /\ objects' = [i \in Registered(registry) \ {id} |-> Fields(i)]

\* a call of the manager that is not a run: the record of the last run goes
NoRunRecord ==
    /\ invoked' = <<>>
    /\ rounds' = 0
    /\ received' = <<>>
    /\ initial_context' = NoContext

PipelineAnswer(id) == [kind |-> "pipeline", value |-> id]
DeleteAnswer(found) == [kind |-> "deleted", value |-> found]
NamesAnswer(names) == [kind |-> "names", value |-> names]
StatusAnswer(count, names) ==
    [kind |-> "status", pipelines_count |-> count, pipelines |-> names]

\* l.332-335
PipelineNotFound(name) ==
    [kind |-> "not found", success |-> FALSE,
     error |-> <<"Pipeline not found: ", name>>]

\* Variant of Register that keeps a pipeline already registered under name.
Register_keeps_first(ps, name, id) ==
    IF name \in Keys(ps) THEN ps ELSE Append(ps, Entry(name, id))

\* l.288: self.pipelines[name] = pipeline
Register(ps, name, id) == DictSet(ps, Entry(name, id))

\* create_pipeline (l.277-289): a new Pipeline object, registered under name
\* and returned to the caller
create_pipeline(name) ==
    /\ pc = "idle"
    /\ UNCHANGED <<store, project, tracker>>
    /\ created < MaxPipelines
    /\ created' = created + 1
    /\ requested' = name
    /\ LET id == created + 1
           registry == Register(pipelines, name, id)
       IN  /\ pipelines' = registry
           /\ Hold(id, NewPipeline(id), registry)
           /\ result' = PipelineAnswer(id)
    /\ pre' = IF name \in Keys(pipelines)
              THEN Fields(Lookup(pipelines, name)) ELSE NoRun
    /\ NoRunRecord
    /\ UNCHANGED <<pc, completed_tasks, failed_tasks, runnable_tasks,
                   edits, runs>>

\* get_pipeline (l.291-300)
get_pipeline(name) ==
    /\ pc = "idle"
    /\ UNCHANGED <<store, project, tracker>>
    /\ requested' = name
    /\ LET id == Lookup(pipelines, name)
       IN  /\ result' = PipelineAnswer(id)
           /\ IF id # 0
              THEN Hold(id, Fields(id), pipelines)
              ELSE UNCHANGED <<held, tasks, execution_order, context,
                               context_obj, objects>>
    /\ pre' = NoRun
    /\ NoRunRecord
    /\ UNCHANGED <<pc, completed_tasks, failed_tasks, runnable_tasks,
                   edits, runs, pipelines, created>>

\* Variant of Unregister that removes the first entry.
Unregister_first(ps, name) == Tail(ps)

\* l.312: del self.pipelines[name]
Unregister(ps, name) == DictDel(ps, name)

\* delete_pipeline (l.302-314)
delete_pipeline(name) ==
    /\ pc = "idle"
    /\ UNCHANGED <<store, project, tracker>>
    /\ requested' = name
    /\ IF name \in Keys(pipelines)
       THEN LET registry == Unregister(pipelines, name)
            IN  /\ pipelines' = registry
                /\ objects' = [i \in Registered(registry) \ {held} |->
                                  objects[i]]
                /\ result' = DeleteAnswer(TRUE)
       ELSE /\ result' = DeleteAnswer(FALSE)
            /\ UNCHANGED <<pipelines, objects>>
    /\ pre' = NoRun
    /\ NoRunRecord
    /\ UNCHANGED <<tasks, execution_order, context, context_obj, pc,
                   completed_tasks, failed_tasks, runnable_tasks, edits,
                   runs, held, created>>

\* list_pipelines (l.339-345): list(self.pipelines.keys())
list_pipelines ==
    /\ pc = "idle"
    /\ UNCHANGED <<store, project, tracker>>
    /\ requested' = ""
    /\ result' = NamesAnswer([i \in 1..Len(pipelines) |-> pipelines[i].name])
    /\ pre' = NoRun
    /\ NoRunRecord
    /\ UNCHANGED <<tasks, execution_order, context, context_obj, pc,
                   completed_tasks, failed_tasks, runnable_tasks, edits,
                   runs, pipelines, objects, held, created>>

\* PipelineManager.get_status (l.347-357): the count and the names
Manager_get_status ==
    /\ pc = "idle"
    /\ UNCHANGED <<store, project, tracker>>
    /\ requested' = ""
    /\ result' = StatusAnswer(Len(pipelines), Keys(pipelines))
    /\ pre' = NoRun
    /\ NoRunRecord
    /\ UNCHANGED <<tasks, execution_order, context, context_obj, pc,
                   completed_tasks, failed_tasks, runnable_tasks, edits,
                   runs, pipelines, objects, held, created>>

\* execute_pipeline (l.316-337): the structured error for an unknown name,
\* else Pipeline.execute on the registered object
execute_pipeline(name, ic) ==
    /\ pc = "idle"
    /\ UNCHANGED <<store, project, tracker>>
    /\ requested' = name
    /\ LET id == Lookup(pipelines, name)
       IN  IF id = 0
           THEN /\ result' = PipelineNotFound(name)
                /\ pre' = NoRun
                /\ NoRunRecord
                /\ UNCHANGED <<tasks, execution_order, context, context_obj,
                               pc, completed_tasks, failed_tasks,
                               runnable_tasks, edits, runs, pipelines,
                               objects, held, created>>
           ELSE /\ runs < MaxRuns
                /\ held' = id
                /\ objects' = [i \in Registered(pipelines) \ {id} |->
                                  Fields(i)]
                /\ Pipeline_execute(Fields(id), ic)
                /\ UNCHANGED <<pipelines, created>>

\* A manager after create_pipeline("p") and two add_task calls on the
\* pipeline it returned: one small pipeline, registered and held.
ManagerInit ==
    /\ BuiltSmall
    /\ NeverRun
    /\ pipelines = <<Entry("p", 1)>>
    /\ objects = <<>>
    /\ held = 1
    /\ created = 1
    /\ requested = "p"
    /\ NoStore
    /\ NoProject
    /\ NoTracker

ManagerNext ==
    \/ \E name \in PipelineNames : create_pipeline(name)
    \/ \E name \in PipelineNames : get_pipeline(name)
    \/ \E name \in PipelineNames : delete_pipeline(name)
    \/ list_pipelines
    \/ Manager_get_status
    \/ \E name \in PipelineNames : \E ic \in InitialContexts :
          execute_pipeline(name, ic)
    \/ ExecuteStep

ManagerSpec == ManagerInit /\ [][ManagerNext]_vars

\* ------------------------------------- ContextManager (context/manager.py)
\* A mapping from some of the keys to values.
Datas == UNION {[K -> DataValues] : K \in SUBSET DataKeys}

\* The data argument of create_context: None or a mapping
CreateArgs ==
    {[given |-> FALSE, data |-> <<>>]} \cup
    {[given |-> TRUE, data |-> d] : d \in Datas}

\* The data argument of update_context
UpdateArgs == Datas

\* the ids of the contexts held, and the context held under an id
Ids(cs) == {cs[i].id : i \in 1..Len(cs)}
Context(cs, id) == cs[CHOOSE i \in 1..Len(cs) : cs[i].id = id]

\* Variant of Store that leaves a context already held under the id alone.
Store_if_absent(cs, c) ==
    IF c.id \in Ids(cs) THEN cs ELSE Append(cs, c)

\* self.contexts[context_id] = context : an existing key keeps its position
Store(cs, c) ==
    IF c.id \in Ids(cs)
    THEN [cs EXCEPT ![CHOOSE i \in 1..Len(cs) : cs[i].id = c.id] = c]
    ELSE Append(cs, c)

\* l.53-59: the context create_context makes (the two timestamps, which
\* hold the time of the call, are left out)
NewContext(id, data) == [id |-> id, data |-> data, version |-> 1]

\* Variant of Merge in which the values already there win.
Merge_keeps_old(old, new) ==
    [k \in DOMAIN old \cup DOMAIN new |->
        IF k \in DOMAIN old THEN old[k] ELSE new[k]]

\* l.90: context["data"].update(data)
Merge(old, new) ==
    [k \in DOMAIN old \cup DOMAIN new |->
        IF k \in DOMAIN new THEN new[k] ELSE old[k]]

\* l.98-103: the history entry (without its timestamp)
HistoryEntry(id, version, data) ==
    [context_id |-> id, version |-> version, changes |-> DOMAIN data]

\* Variant of JsonKey in which a key keeps its type.
JsonKey_typed(k) == k

\* json.dump writes every key of an object as a string: the key 1 as "1"
JsonKey(k) == IF k[1] = "int" THEN <<"str", ToString(k[2])>> ELSE k

JsonObject(data) ==
    [k \in {JsonKey(k0) : k0 \in DOMAIN data} |->
        data[CHOOSE k0 \in DOMAIN data : JsonKey(k0) = k]]

\* l.140-141: what save_context writes for a context; saved is the context
\* the text was written from
JsonDump(c) ==
    [exists |-> TRUE,
     text |-> [id |-> c.id, data |-> JsonObject(c.data),
               version |-> c.version],
     saved |-> c]

ReturnedNone == [kind |-> "returned", value |-> "None"]
FileNotFound == [kind |-> "raised", value |-> "FileNotFoundError"]

\* the tail of create_context and update_context (l.61-62, l.105-106) with
\* save_context (l.128-141): open() raises when the directory is missing
\* ret is what the caller gets when the save does not raise
AutoSaveThen(c, ret) ==
    IF auto_save
    THEN IF dir_exists
         THEN /\ files' = [files EXCEPT ![c.id] = JsonDump(c)]
              /\ result' = ret
         ELSE /\ result' = FileNotFound
              /\ UNCHANGED files
    ELSE /\ result' = ret
         /\ UNCHANGED files

AutoSave(c) == AutoSaveThen(c, ReturnedNone)

\* the variables of the pipelines, of their manager, of the project and of
\* the tracker, but for result
elsewhere == <<tasks, execution_order, context, context_obj, pc,
               completed_tasks, failed_tasks, runnable_tasks, invoked,
               received, initial_context, pre, edits, runs, rounds, manager,
               project, tracker>>

\* everything that no method of the ContextManager writes
others == <<elsewhere, within>>

\* ContextManager.initialize (l.33-38): mkdir(parents=True, exist_ok=True)
ContextManager_initialize ==
    /\ last_call' = [op |-> "initialize"]
    /\ dir_exists' = TRUE
    /\ result' = [kind |-> "returned", value |-> "True"]
    /\ UNCHANGED <<contexts, context_history, auto_save, files, others>>

\* create_context (l.46-62); data or {} gives the empty mapping for None
create_context(id, arg) ==
    /\ last_call' = [op |-> "create_context", context_id |-> id,
                     data |-> arg.data]
    /\ contexts' = Store(contexts, NewContext(id, arg.data))
    /\ AutoSave(NewContext(id, arg.data))
    /\ UNCHANGED <<context_history, auto_save, dir_exists, others>>

\* update_context (l.75-106)
\* the body of update_context (l.83-106); ret is what the caller gets when
\* the save does not raise
UpdateThen(id, data, merge, ret) ==
    IF id \notin Ids(contexts)
    THEN /\ contexts' = Store(contexts, NewContext(id, data))
         /\ AutoSaveThen(NewContext(id, data), ret)
         /\ UNCHANGED context_history
    ELSE /\ Len(context_history) < MaxHistory
         /\ LET old == Context(contexts, id)
                new == [old EXCEPT
                          !.data = IF merge THEN Merge(old.data, data)
                                            ELSE data,
                          !.version = old.version + 1]
            IN  /\ contexts' = Store(contexts, new)
                /\ context_history' = Append(context_history,
                       HistoryEntry(id, new.version, data))
                /\ AutoSaveThen(new, ret)

update_context(id, data, merge) ==
    /\ last_call' = [op |-> "update_context", context_id |-> id,
                     data |-> data, merge |-> merge]
    /\ UpdateThen(id, data, merge, ReturnedNone)
    /\ UNCHANGED <<auto_save, dir_exists, others>>

\* ContextManager.__init__ (l.18-31): nothing held, auto_save as configured;
\* the storage directory may be there already
StoreInit ==
    /\ tasks = <<>>
    /\ edits = 0
    /\ NeverRun
    /\ Unmanaged
    /\ contexts = <<>>
    /\ context_history = <<>>
    /\ auto_save \in BOOLEAN
    /\ dir_exists \in BOOLEAN
    /\ files = [id \in ContextIds |-> NoFile]
    /\ last_call = NoCall
    /\ within = ""
    /\ NoProject
    /\ NoTracker

StoreNext ==
    \/ ContextManager_initialize
    \/ \E id \in ContextIds : \E arg \in CreateArgs : create_context(id, arg)
    \/ \E id \in ContextIds : \E data \in UpdateArgs : \E merge \in BOOLEAN :
          update_context(id, data, merge)

StoreSpec == StoreInit /\ [][StoreNext]_vars

\* ------------------------------------------------ share_between_contexts
ShareIds == {"c1", "c2"}

ReturnedTrue == [kind |-> "returned", value |-> "True"]
ReturnedFalse == [kind |-> "returned", value |-> "False"]

\* Variant of Shared that takes every key of the source.
Shared_all(data, keys) == data

\* l.187-190: the entries of the source that the list names
Shared(data, keys) == [k \in DOMAIN data \cap keys |-> data[k]]

\* share_between_contexts (l.172-195)
share_between_contexts(source_id, target_id, keys) ==
    /\ last_call' = [op |-> "share_between_contexts",
                     source_id |-> source_id, target_id |-> target_id,
                     keys |-> keys]
    /\ IF source_id \notin Ids(contexts)
       THEN /\ result' = ReturnedFalse
            /\ UNCHANGED <<contexts, context_history, files>>
       ELSE LET shared_data ==
                    Shared(Context(contexts, source_id).data, keys)
            IN  IF DOMAIN shared_data = {}
                THEN /\ result' = ReturnedFalse
                     /\ UNCHANGED <<contexts, context_history, files>>
                ELSE UpdateThen(target_id, shared_data, TRUE, ReturnedTrue)
    /\ UNCHANGED <<auto_save, dir_exists, others>>

\* the keys argument: the names it lists
KeyLists == {{}, {<<"str", "x">>}, DataKeys}

\* the data given to create_context before sharing
ShareDatas ==
    {<<>>, (<<"str", "x">> :> 1), (<<"int", 1>> :> 1),
     (<<"str", "x">> :> 2) @@ (<<"int", 1>> :> 2)}

\* what create_context leaves on disk for a context (l.61-62)
SavedBy(c, auto, dir) == IF auto /\ dir THEN JsonDump(c) ELSE NoFile

\* A manager in which create_context was called for "c1", for "c2", for
\* both in this order, or for neither.
ShareInit ==
    /\ tasks = <<>>
    /\ edits = 0
    /\ NeverRun
    /\ Unmanaged
    /\ auto_save \in BOOLEAN
    /\ dir_exists \in BOOLEAN
    /\ \E held_ids \in SUBSET ShareIds : \E d1 \in ShareDatas :
          \E d2 \in ShareDatas :
             LET c1 == NewContext("c1", d1)
                 c2 == NewContext("c2", d2)
             IN  /\ contexts =
                       (IF "c1" \in held_ids THEN <<c1>> ELSE <<>>) \o
                       (IF "c2" \in held_ids THEN <<c2>> ELSE <<>>)
                 /\ files =
                       [id \in ShareIds |->
                          IF id \notin held_ids THEN NoFile
                          ELSE SavedBy(IF id = "c1" THEN c1 ELSE c2,
                                       auto_save, dir_exists)]
    /\ context_history = <<>>
    /\ last_call = NoCall
    /\ within = ""
    /\ NoProject
    /\ NoTracker

ShareNext ==
    \E source_id \in ShareIds : \E target_id \in ShareIds :
       \E keys \in KeyLists :
          share_between_contexts(source_id, target_id, keys)

ShareSpec == ShareInit /\ [][ShareNext]_vars

\* ------------------------------------------- save, delete, temp_context
\* save_context (l.128-141), called by the user: auto_save is not read
save_context(id) ==
    /\ last_call' = [op |-> "save_context", context_id |-> id]
    /\ IF id \notin Ids(contexts)
       THEN /\ result' = ReturnedNone
            /\ UNCHANGED files
       ELSE IF dir_exists
            THEN /\ files' = [files EXCEPT
                                ![id] = JsonDump(Context(contexts, id))]
                 /\ result' = ReturnedNone
            ELSE /\ result' = FileNotFound
                 /\ UNCHANGED files
    /\ UNCHANGED <<contexts, context_history, auto_save, dir_exists, others>>

\* del self.contexts[context_id]
Without(cs, id) == SelectSeq(cs, LAMBDA c : c.id # id)

\* the body of delete_context (l.117-126); held and missing are what the
\* caller gets in the two cases
DeleteThen(id, held_ret, missing_ret) ==
    IF id \in Ids(contexts)
    THEN /\ contexts' = Without(contexts, id)
         /\ files' = [files EXCEPT ![id] = NoFile]
         /\ result' = held_ret
    ELSE /\ result' = missing_ret
         /\ UNCHANGED <<contexts, files>>

\* delete_context (l.108-126)
delete_context(id) ==
    /\ last_call' = [op |-> "delete_context", context_id |-> id]
    /\ DeleteThen(id, ReturnedTrue, ReturnedFalse)
    /\ UNCHANGED <<context_history, auto_save, dir_exists, others>>

\* l.158: json.load gives the object of the text, its keys strings
JsonLoad(file) == file.text

\* load_context (l.143-162); a file is only ever written by json.dump, so
\* json.load does not raise
load_context(id) ==
    /\ last_call' = [op |-> "load_context", context_id |-> id]
    /\ IF ~files[id].exists
       THEN /\ result' = ReturnedFalse
            /\ UNCHANGED contexts
       ELSE /\ contexts' = Store(contexts, JsonLoad(files[id]))
            /\ result' = ReturnedTrue
    /\ UNCHANGED <<context_history, auto_save, dir_exists, files, others>>

\* another ContextManager is constructed with the same configuration
\* (l.18-31) and used from now on: it holds nothing, the files are there
new_manager ==
    /\ last_call' = [op |-> "new_manager"]
    /\ contexts' = <<>>
    /\ context_history' = <<>>
    /\ result' = ReturnedNone
    /\ UNCHANGED <<auto_save, dir_exists, files, others>>

\* the data given to create_context and to update_context before saving
FileArgs ==
    {[given |-> FALSE, data |-> <<>>]} \cup
    {[given |-> TRUE, data |-> d] :
        d \in {d \in Datas : \A k \in DOMAIN d : d[k] = 1}}

FileUpdates == {(<<"str", "x">> :> 2)}

FileInit == StoreInit

\* A new manager starts a new history, so the versions are capped as well.
FileNext ==
    \/ ContextManager_initialize
    \/ \E id \in ContextIds : \E arg \in FileArgs : create_context(id, arg)
    \/ \E id \in ContextIds : \E data \in FileUpdates :
          /\ id \in Ids(contexts) => Context(contexts, id).version <= MaxHistory
          /\ update_context(id, data, TRUE)
    \/ \E id \in ContextIds : save_context(id)
    \/ \E id \in ContextIds : load_context(id)
    \/ \E id \in ContextIds : delete_context(id)
    \/ new_manager

FileSpec == FileInit /\ [][FileNext]_vars

TempIds == {"c1", "tmp"}

\* how a with-block ends
Endings == {"normal", "raising"}

Yielded == [kind |-> "yielded", value |-> "data"]
LeftBlock == [kind |-> "returned", value |-> "left"]
BlockRaised == [kind |-> "raised", value |-> "BlockError"]

\* Variant of Finally in which the clean-up is skipped when the block
\* raises.
Finally_unless_raising(how) == how = "normal"

\* l.210: the finally clause runs however the block ends
Finally(how) == TRUE

\* temp_context up to its yield (l.207-209): entering the with-block.
\* create_context is called before the try, so when its save raises the
\* block is not entered and nothing is cleaned up.
temp_context_enter(id) ==
    /\ within = ""
    /\ last_call' = [op |-> "temp_context", context_id |-> id]
    /\ contexts' = Store(contexts, NewContext(id, <<>>))
    /\ AutoSaveThen(NewContext(id, <<>>), Yielded)
    /\ within' = IF auto_save /\ ~dir_exists THEN "" ELSE id
    /\ UNCHANGED <<context_history, auto_save, dir_exists, elsewhere>>

\* the block stores a value in the mapping it was given (test_temp_context:
\* ctx["temp_data"] = "temp_value"): the data of the context, no new version
write_yielded(k, v) ==
    /\ within # ""
    /\ within \in Ids(contexts)
    /\ last_call' = [op |-> "write", context_id |-> within]
    /\ LET c == Context(contexts, within)
       IN  contexts' = Store(contexts,
                             [c EXCEPT !.data = Merge(c.data, k :> v)])
    /\ result' = ReturnedNone
    /\ UNCHANGED <<context_history, auto_save, dir_exists, files, others>>

\* temp_context after its yield (l.210-211): the with-block is left
temp_context_exit(how) ==
    /\ within # ""
    /\ last_call' = [op |-> "temp_context_exit", context_id |-> within,
                     how |-> how]
    /\ IF Finally(how)
       THEN DeleteThen(within,
                       IF how = "normal" THEN LeftBlock ELSE BlockRaised,
                       IF how = "normal" THEN LeftBlock ELSE BlockRaised)
       ELSE /\ result' = BlockRaised
            /\ UNCHANGED <<contexts, files>>
    /\ within' = ""
    /\ UNCHANGED <<context_history, auto_save, dir_exists, elsewhere>>

TempInit ==
    /\ tasks = <<>>
    /\ edits = 0
    /\ NeverRun
    /\ Unmanaged
    /\ contexts = <<>>
    /\ context_history = <<>>
    /\ auto_save \in BOOLEAN
    /\ dir_exists \in BOOLEAN
    /\ files = [id \in TempIds |-> NoFile]
    /\ last_call = NoCall
    /\ within = ""
    /\ NoProject
    /\ NoTracker

\* Outside a with-block the caller initializes the manager, creates or
\* updates "c1", or enters a block; inside, it writes to the mapping it was
\* given, saves the temporary context, and leaves.
TempNext ==
    \/ within = "" /\ ContextManager_initialize
    \/ within = "" /\ \E arg \in CreateArgs : create_context("c1", arg)
    \/ /\ within = "" /\ "c1" \in Ids(contexts)
       /\ \E data \in FileUpdates : update_context("c1", data, TRUE)
    \/ \E id \in TempIds : temp_context_enter(id)
    \/ \E k \in DataKeys : \E v \in DataValues : write_yielded(k, v)
    \/ within # "" /\ save_context(within)
    \/ \E how \in Endings : temp_context_exit(how)

TempSpec == TempInit /\ [][TempNext]_vars

\* ------------------------------------------------------------ AIProject
\* (core/project.py, core/component.py)
ComponentNames == {"a", "b", "c"}

\* what a component's initialize() does: the components of the package set
\* _initialized and return True; a component may also return False
Kinds == {"ok", "fails"}

\* Component.__init__ (component.py l.21-24)
NewComponent(name, kind) ==
    [name |-> name, kind |-> kind, initialized |-> FALSE]

\* component.initialize() returned True
Succeeds(c) == c.kind = "ok"

\* the component after its initialize() was called
Initialized(c) == IF Succeeds(c) THEN [c EXCEPT !.initialized = TRUE] ELSE c

NamesOf(cs) == {cs[i].name : i \in 1..Len(cs)}

\* self.components[component.name] = component
Put(cs, c) ==
    IF c.name \in NamesOf(cs)
    THEN [cs EXCEPT ![CHOOSE i \in 1..Len(cs) : cs[i].name = c.name] = c]
    ELSE Append(cs, c)

ProjectNone == [kind |-> "none", value |-> FALSE]
ProjectAnswer(b) == [kind |-> "initialized", value |-> b]

elsewhere_but_project ==
    <<tasks, execution_order, context, context_obj, pc, completed_tasks,
      failed_tasks, runnable_tasks, invoked, received, initial_context, pre,
      edits, runs, rounds, manager, store, tracker>>

\* AIProject.add_component (project.py l.35-41)
add_component(name, kind) ==
    /\ components' = Put(components, NewComponent(name, kind))
    /\ result' = ProjectNone
    /\ UNCHANGED <<project_initialized, elsewhere_but_project>>

\* AIProject.remove_component (l.43-51); cleanup() of the base class does
\* nothing
remove_component(name) ==
    /\ components' = SelectSeq(components, LAMBDA c : c.name # name)
    /\ result' = ProjectNone
    /\ UNCHANGED <<project_initialized, elsewhere_but_project>>

\* AIProject.initialize (l.64-80): every component is called, also after one
\* has failed
AIProject_initialize ==
    /\ IF project_initialized
       THEN /\ result' = ProjectAnswer(TRUE)
            /\ UNCHANGED <<components, project_initialized>>
       ELSE LET success == \A i \in 1..Len(components) :
                               Succeeds(components[i])
            IN  /\ components' = [i \in 1..Len(components) |->
                                    Initialized(components[i])]
                /\ project_initialized' = success
                /\ result' = ProjectAnswer(success)
    /\ UNCHANGED elsewhere_but_project

\* AIProject.__init__ (l.18-33)
ProjectInit ==
    /\ tasks = <<>>
    /\ edits = 0
    /\ NeverRun
    /\ Unmanaged
    /\ NoStore
    /\ NoTracker
    /\ components = <<>>
    /\ project_initialized = FALSE

ProjectNext ==
    \/ \E name \in ComponentNames : \E kind \in Kinds :
          add_component(name, kind)
    \/ \E name \in ComponentNames : remove_component(name)
    \/ AIProject_initialize

ProjectSpec == ProjectInit /\ [][ProjectNext]_vars

\* ------------------------------------------------------ FeedbackTracker
\* (feedback/tracker.py)
MilestoneNames == {"m1", "m2"}

\* how a listener ends when it is called with an event
ListenerKinds == {"returns", "raises"}

ListenerRaised == [kind |-> "raised", value |-> "ListenerError"]

\* l.107-114: the milestone add_milestone makes (created_at, description
\* and metadata left out); completed_at is the time of the call or None
NewMilestone(name, completed) ==
    [name |-> name, completed |-> completed,
     completed_at |-> IF completed THEN "now" ELSE "None"]

\* l.118-123, l.138-142: the event logged for a completed milestone
MilestoneCompleted(name) ==
    [message |-> <<"Milestone completed", name>>, level |-> "success",
     category |-> "milestone"]

\* Variant of Called_by that goes on with the next listener when one raises.
Called_by_all(ls) == [i \in 1..Len(ls) |-> i]

\* the listeners log_event calls (l.89-90): all of them, or those up to
\* the first that raises
Called_by(ls) ==
    LET raising == {i \in 1..Len(ls) : ls[i] = "raises"}
    IN  IF raising = {} THEN [i \in 1..Len(ls) |-> i]
        ELSE [i \in 1..(CHOOSE i \in raising : \A j \in raising : i <= j)
                |-> i]

Raises(ls) == \E i \in 1..Len(ls) : ls[i] = "raises"

\* the body of log_event (l.76-90); ret is what the caller gets when no
\* listener raises
LogThen(event, ret) ==
    /\ events' = Append(events, event)
    /\ notified' = Called_by(listeners)
    /\ result' = IF Raises(listeners) THEN ListenerRaised ELSE ret

\* the milestones named name that are not completed
Open(ms, name) ==
    {i \in 1..Len(ms) : ms[i].name = name /\ ~ms[i].completed}

\* Variant of FirstOpen that takes the last open milestone of the name.
FirstOpen_last(ms, name) ==
    CHOOSE i \in Open(ms, name) : \A j \in Open(ms, name) : j <= i

\* l.134-135: the loop stops at the first milestone that matches
FirstOpen(ms, name) ==
    CHOOSE i \in Open(ms, name) : \A j \in Open(ms, name) : i <= j

elsewhere_but_tracker ==
    <<tasks, execution_order, context, context_obj, pc, completed_tasks,
      failed_tasks, runnable_tasks, invoked, received, initial_context, pre,
      edits, runs, rounds, manager, project, contexts, context_history,
      auto_save, dir_exists, files, within>>

\* add_listener (l.257-263)
add_listener(kind) ==
    /\ Len(listeners) < MaxListeners
    /\ last_call' = [op |-> "add_listener"]
    /\ listeners' = Append(listeners, kind)
    /\ result' = ReturnedNone
    /\ UNCHANGED <<milestones, events, notified, elsewhere_but_tracker>>

\* add_milestone (l.92-123)
add_milestone(name, completed) ==
    /\ Len(milestones) < MaxMilestones
    /\ last_call' = [op |-> "add_milestone", name |-> name,
                     completed |-> completed]
    /\ milestones' = Append(milestones, NewMilestone(name, completed))
    /\ IF completed
       THEN LogThen(MilestoneCompleted(name), ReturnedNone)
       ELSE /\ result' = ReturnedNone
            /\ UNCHANGED <<events, notified>>
    /\ UNCHANGED <<listeners, elsewhere_but_tracker>>

\* complete_milestone (l.125-144)
complete_milestone(name) ==
    /\ last_call' = [op |-> "complete_milestone", name |-> name]
    /\ IF Open(milestones, name) # {}
       THEN /\ milestones' =
                  [milestones EXCEPT
                     ![FirstOpen(milestones, name)] =
                        [@ EXCEPT !.completed = TRUE, !.completed_at = "now"]]
            /\ LogThen(MilestoneCompleted(name), ReturnedTrue)
       ELSE /\ result' = ReturnedFalse
            /\ UNCHANGED <<milestones, events, notified>>
    /\ UNCHANGED <<listeners, elsewhere_but_tracker>>

\* get_progress_summary (l.158-176): the milestone counts
get_progress_summary ==
    /\ last_call' = [op |-> "get_progress_summary"]
    /\ result' =
          [kind |-> "summary",
           total |-> Len(milestones),
           completed |-> Cardinality({i \in 1..Len(milestones) :
                                         milestones[i].completed})]
    /\ UNCHANGED <<tracker, elsewhere_but_tracker>>

\* FeedbackTracker.__init__ (l.26-45)
TrackerInit ==
    /\ tasks = <<>>
    /\ edits = 0
    /\ NeverRun
    /\ Unmanaged
    /\ NoStore
    /\ NoProject
    /\ NoTracker

TrackerNext ==
    \/ \E kind \in ListenerKinds : add_listener(kind)
    \/ \E name \in MilestoneNames : \E completed \in BOOLEAN :
          add_milestone(name, completed)
    \/ \E name \in MilestoneNames : complete_milestone(name)
    \/ get_progress_summary

TrackerSpec == TrackerInit /\ [][TrackerNext]_vars

\* the messages log_event is called with
Messages == {"e1", "e2"}

\* l.76-82: the event log_event builds from its arguments (timestamp and
\* metadata left out), level and category at their defaults
Logged(message) ==
    [message |-> message, level |-> "info", category |-> "general"]

\* log_event (l.60-90) called by the owner of the tracker
log_event(message) ==
    /\ Len(events) < MaxEvents
    /\ last_call' = [op |-> "log_event", message |-> message]
    /\ LogThen(Logged(message), ReturnedNone)
    /\ UNCHANGED <<milestones, listeners, elsewhere_but_tracker>>

\* A tracker whose owner registers listeners and logs events.
LogNext ==
    \/ \E kind \in ListenerKinds : add_listener(kind)
    \/ \E message \in Messages : log_event(message)

LogSpec == TrackerInit /\ [][LogNext]_vars

\* ------------------------------------------ Pipeline.validate on its own
\* the names of the tasks of a pipeline given to validate, and the names in
\* their dependency lists: "X" is the name of no task, and no list names "C"
ValidateNames == <<"A", "B", "C">>
ValidateDepNames == {"A", "B", "X"}

\* Pipelines of three new tasks whose dependency lists are any lists of at
\* most MaxDeps names: a list may name its own task, a task that does not
\* exist, or one name twice.
ValidatePipelines ==
    {[i \in 1..Len(ValidateNames) |-> Task(ValidateNames[i], deps[i])] :
        deps \in [1..Len(ValidateNames) ->
                     SeqsUpTo(ValidateDepNames, MaxDeps)]}

ValidateAnswer(errors) ==
    [NoResult EXCEPT !.kind = "validated", !.errors = errors]

\* validate() called by the owner of the pipeline (l.132-151): it reads
\* self.tasks and returns the list
Pipeline_validate ==
    /\ pc = "idle"
    /\ result.kind = "none"
    /\ result' = ValidateAnswer(validate(tasks))
    /\ UNCHANGED <<manager, store, project, tracker>>
    /\ UNCHANGED <<tasks, execution_order, context, context_obj, pc,
                   completed_tasks, failed_tasks, runnable_tasks, invoked,
                   received, initial_context, pre, edits, runs, rounds>>

ValidateInit ==
    /\ tasks \in ValidatePipelines
    /\ edits = Len(ValidateNames)
    /\ NeverRun /\ Unmanaged /\ NoStore /\ NoProject /\ NoTracker

ValidateNext == Pipeline_validate

ValidateSpec == ValidateInit /\ [][ValidateNext]_vars

\* ------------------------------------ execute() called again and again
\* A built pipeline on which nothing but execute() is called: its task set
\* stays what it was when the first run was called.
RerunInit ==
    Built /\ NeverRun /\ Unmanaged /\ NoStore /\ NoProject /\ NoTracker

RerunNext ==
    \/ \E ic \in InitialContexts : execute_begin(ic)
    \/ ExecuteStep

RerunSpec == RerunInit /\ [][RerunNext]_vars

\* ------------------------------------------------- vocabulary of the claims
DependenciesOf(ts, name) ==
    IF name \in Keys(ts) THEN Range(Get(ts, name).dependencies) ELSE {}

RECURSIVE Closure(_, _, _)
Closure(ts, S, n) ==
    IF n = 0 THEN S
    ELSE Closure(ts, S \cup UNION {DependenciesOf(ts, x) : x \in S}, n - 1)

\* the direct and transitive dependencies of a task
Ancestors(ts, name) == Closure(ts, DependenciesOf(ts, name), Len(ts))

HasCycle(ts) == \E n \in Keys(ts) : n \in Ancestors(ts, n)

HasDangling(ts) == \E n \in Keys(ts) : ~(DependenciesOf(ts, n) \subseteq Keys(ts))

StatusOf(ts, name) == Get(ts, name).status

Count(s, x) == Cardinality({i \in 1..Len(s) : s[i] = x})

\* an execute() call is under way or was the most recent call
Called == pc # "idle" \/ result.kind # "none"
\* the most recent call was execute() and it returned the result of a run
Returned == pc = "idle" /\ result.kind = "result"
\* ... it returned validation errors
Rejected == pc = "idle" /\ result.kind = "errors"
\* ... it ended by an exception leaving execute()
Aborted == pc = "idle" /\ result.kind = "raised"

\* what this call appended to execution_order
Appended(order) ==
    SubSeq(order, Len(pre.execution_order) + 1, Len(order))

IsDiamond(ts) ==
    /\ Keys(ts) = {"A", "B", "C", "D"}
    /\ Get(ts, "A").dependencies = <<>>
    /\ Get(ts, "B").dependencies = <<"A">>
    /\ Get(ts, "C").dependencies = <<"A">>
    /\ Get(ts, "D").dependencies = <<"B", "C">>

\* --------------------------------------------------------------------- C1
\* C1 as stated: in the execution_order a run returns, every task name that
\* appears in it appears after the names of all of its dependencies.
C1_ReturnedOrderRespectsDependencies ==
    Returned =>
        \A t \in Keys(tasks) \cap Range(result.execution_order) :
            \A d \in DependenciesOf(tasks, t) :
                \E i \in 1..Len(result.execution_order) :
                    \E j \in 1..Len(result.execution_order) :
                        /\ i < j
                        /\ result.execution_order[i] = d
                        /\ result.execution_order[j] = t

\* C1 (amended): a work function is called only after every dependency of its
\* task was called earlier in the same run and completed; in the part of
\* execution_order that the run appended, every name comes after the names of
\* all of its task's dependencies.
C1_DependenciesFirst ==
    /\ pc = "call" =>
          \A d \in DependenciesOf(tasks, invoked[Len(invoked)]) :
              /\ \E i \in 1..(Len(invoked) - 1) : invoked[i] = d
              /\ StatusOf(tasks, d) = COMPLETED
              /\ d \in Range(completed_tasks)
    /\ Returned =>
          LET new == Appended(result.execution_order)
          IN  \A j \in 1..Len(new) :
                  \A d \in DependenciesOf(tasks, new[j]) :
                      \E i \in 1..(j - 1) : new[i] = d

\* the diamond, run to the end: A first, D last
C1_Witness ==
    /\ Returned
    /\ IsDiamond(tasks)
    /\ Len(result.execution_order) = 4
    /\ result.execution_order[1] = "A"
    /\ result.execution_order[4] = "D"

\* --------------------------------------------------------------------- C2
\* C2: when validate() gives errors, execute() returns success = false with
\* those errors and empty completed_tasks and failed_tasks, calls no work
\* function and leaves every task as it was before the call.
C2_InvalidPipelineIsNotRun ==
    (Called /\ validate(pre.tasks) # <<>>) =>
        /\ Rejected
        /\ result.success = FALSE
        /\ result.errors = validate(pre.tasks)
        /\ result.completed_tasks = <<>>
        /\ result.failed_tasks = <<>>
        /\ invoked = <<>>
        /\ tasks = pre.tasks

\* a rejected call on a pipeline that holds a Completed task and a Pending
\* task without dependencies next to the faulty one
C2_Witness ==
    /\ Rejected
    /\ \E a \in Keys(tasks) : StatusOf(tasks, a) = COMPLETED
    /\ \E b \in Keys(tasks) :
          /\ StatusOf(tasks, b) = PENDING
          /\ DependenciesOf(tasks, b) = {}
          /\ \A c \in Keys(tasks) : b \notin Ancestors(tasks, c)

\* --------------------------------------------------------------------- C3
FailedAncestor(ts, t) ==
    \E a \in Ancestors(ts, t) \cap Keys(ts) : StatusOf(ts, a) = FAILED

\* C3 as stated: when a run of a valid pipeline has ended, every task with a
\* Failed task among its direct or transitive dependencies was not executed,
\* has status Skipped and is in neither completed_tasks nor failed_tasks.
C3_DependentsOfFailedAreSkipped ==
    (Returned \/ Aborted) =>
        \A t \in Keys(tasks) :
            FailedAncestor(tasks, t) =>
                /\ t \notin Range(invoked)
                /\ StatusOf(tasks, t) = SKIPPED
                /\ t \notin Range(result.completed_tasks)
                /\ t \notin Range(result.failed_tasks)

\* C3 (amended): when a run of a valid pipeline has returned its result, every
\* task with a Failed task among its direct or transitive dependencies was not
\* executed in the run and is in neither list; it has status Skipped if it was
\* Pending when the run was called.
C3_PendingDependentsOfFailedAreSkipped ==
    Returned =>
        \A t \in Keys(tasks) :
            FailedAncestor(tasks, t) =>
                /\ t \notin Range(invoked)
                /\ t \notin Range(result.completed_tasks)
                /\ t \notin Range(result.failed_tasks)
                /\ StatusOf(pre.tasks, t) = PENDING
                      => StatusOf(tasks, t) = SKIPPED

\* a returned run in which a task is Skipped below a failure it does not
\* depend on directly
C3_Witness ==
    /\ Returned
    /\ \E t \in Keys(tasks) :
          /\ StatusOf(tasks, t) = SKIPPED
          /\ FailedAncestor(tasks, t)
          /\ \A d \in DependenciesOf(tasks, t) : StatusOf(tasks, d) # FAILED

\* --------------------------------------------------------------------- C4
\* never executed before: every task Pending, no history
FreshRun ==
    /\ pre.execution_order = <<>>
    /\ \A i \in 1..Len(pre.tasks) : pre.tasks[i].status = PENDING

\* a dependency, direct or transitive, whose work function did not succeed
FailingAncestor(ts, t) ==
    \E a \in Ancestors(ts, t) \cap Keys(ts) :
        StatusOf(ts, a) \in {FAILED, RUNNING}

\* C4 as stated: a task's failure does not abort the run of a freshly built
\* valid pipeline: when the run has ended, every task none of whose
\* dependencies failed was executed exactly once.
C4_FailureNeverAbortsRun ==
    ((Returned \/ Aborted) /\ FreshRun) =>
        \A t \in Keys(tasks) :
            ~FailingAncestor(tasks, t) => Count(invoked, t) = 1

\* C4 (amended): a failure that is an Exception does not abort the run; only
\* a work function raising a BaseException that is not an Exception does, and
\* its task is left Running. When the run of a freshly built valid pipeline
\* returns, every task without a Failed dependency, direct or transitive, was
\* executed exactly once and is in completed_tasks if its function succeeded;
\* and every such run ends.
C4_AtTheEnd ==
    /\ \A t \in Keys(tasks) : Count(invoked, t) <= 1
    /\ Aborted => StatusOf(tasks, invoked[Len(invoked)]) = RUNNING
    /\ (Returned /\ FreshRun) =>
          \A t \in Keys(tasks) :
              ~FailedAncestor(tasks, t) =>
                  /\ Count(invoked, t) = 1
                  /\ StatusOf(tasks, t) \in {COMPLETED, FAILED}
                  /\ StatusOf(tasks, t) = COMPLETED
                        <=> t \in Range(result.completed_tasks)

C4_FailureIsolation ==
    /\ []C4_AtTheEnd
    /\ (pc # "idle" /\ FreshRun) ~> ((Returned \/ Aborted) /\ FreshRun)

\* two tasks fail in the first round and a third, called after them in the
\* same round, completes
C4_Witness ==
    /\ Returned /\ FreshRun
    /\ Len(result.failed_tasks) >= 2
    /\ Len(invoked) >= 3
    /\ \A i \in 1..3 : DependenciesOf(tasks, invoked[i]) = {}
    /\ StatusOf(tasks, invoked[1]) = FAILED
    /\ StatusOf(tasks, invoked[2]) = FAILED
    /\ invoked[3] \in Range(result.completed_tasks)

\* --------------------------------------------------------------------- C5
\* C5: for a pipeline that passes validation, success is true exactly when
\* failed_tasks is empty, that is when no work function raised in this run;
\* Skipped tasks do not make it false.
C5_SuccessIffNothingFailed ==
    Returned =>
        /\ result.success <=> result.failed_tasks = <<>>
        /\ result.failed_tasks = <<>>
              <=> \A t \in Range(invoked) : StatusOf(tasks, t) # FAILED

\* a run that returns success = true and leaves a task Skipped
C5_Witness ==
    /\ Returned
    /\ result.success
    /\ \E t \in Keys(tasks) :
          StatusOf(tasks, t) = SKIPPED /\ StatusOf(pre.tasks, t) = PENDING

\* --------------------------------------------------------------------- C6
\* C6 as stated: execute() never raises because a work function failed.
C6_ExecuteNeverRaises == ~Aborted

\* C6 (amended): a failure that is an Exception is caught inside the loop,
\* sets the task Failed and puts its name in failed_tasks, and the run goes
\* on to its result; execute() raises only what is not an Exception, and
\* then the task is left Running with its completion time set.
C6_ExceptionsAreCaught ==
    /\ pc # "idle" =>
          \A t \in Range(invoked) :
              StatusOf(tasks, t) = FAILED <=> t \in Range(failed_tasks)
    /\ Returned =>
          \A t \in Range(invoked) :
              StatusOf(tasks, t) = FAILED <=> t \in Range(result.failed_tasks)
    /\ Aborted =>
          /\ Get(tasks, invoked[Len(invoked)]).status = RUNNING
          /\ Get(tasks, invoked[Len(invoked)]).error = "None"
          /\ Get(tasks, invoked[Len(invoked)]).completed_at = "time"

\* a run that returned after a failure, with a task completed after it
C6_Witness ==
    /\ Returned
    /\ \E i \in 1..Len(invoked) : \E j \in 1..Len(invoked) :
          /\ i < j
          /\ invoked[i] \in Range(result.failed_tasks)
          /\ StatusOf(tasks, invoked[i]) = FAILED
          /\ invoked[j] \in Range(result.completed_tasks)

\* --------------------------------------------------------------------- C7
\* C7: validate() and execute() terminate for every finite pipeline, cyclic,
\* dangling or not all Pending: the search of validate() nests at most one
\* call per task and one more, every pass of the scheduling loop either ends
\* the run or starts a round of at least one Pending task, and every call of
\* execute() ends.
C7_Terminates ==
    /\ [](\A t \in Keys(tasks) :
             RecursionDepth(tasks, t, {}) <= Len(tasks) + 1)
    /\ [][pc = "loop" =>
             \/ pc' = "idle"
             \/ /\ pc' = "round"
                /\ runnable_tasks' # <<>>
                /\ \A i \in 1..Len(runnable_tasks') :
                      StatusOf(tasks, runnable_tasks'[i]) = PENDING]_vars
    /\ (pc # "idle") ~> (pc = "idle")

\* a run that executed a task of a pipeline that was not all Pending ended
C7_Witness ==
    /\ Returned
    /\ invoked # <<>>
    /\ \E i \in 1..Len(pre.tasks) : pre.tasks[i].status # PENDING

\* --------------------------------------------------------------------- C8
\* C8: for a pipeline whose dependency graph is acyclic and whose dependency
\* names all exist, validate() returns an empty list and execute() goes on
\* to the scheduling loop.
C8_ValidPipelinePasses ==
    /\ (~HasCycle(tasks) /\ ~HasDangling(tasks)) => validate(tasks) = <<>>
    /\ (Called /\ ~HasCycle(pre.tasks) /\ ~HasDangling(pre.tasks))
          => result.kind # "errors"

\* the diamond passed validation
C8_Witness ==
    /\ pc = "loop"
    /\ IsDiamond(tasks)
    /\ validate(tasks) = <<>>

\* --------------------------------------------------------------------- C9
\* C9: for every task that lists a dependency name that is not a key of the
\* task mapping, validate() returns a message naming the task and that name.
C9_MissingDependencyIsNamed ==
    \A t \in Keys(tasks) :
        \A d \in DependenciesOf(tasks, t) \ Keys(tasks) :
            \E i \in 1..Len(validate(tasks)) :
                LET m == validate(tasks)[i]
                IN  /\ Len(m) = 5
                    /\ m[1] = "Task '"
                    /\ m[2] = t
                    /\ m[3] = "' depends on missing task '"
                    /\ m[4] = d

\* execute() returned the message for a task whose dependency is missing
C9_Witness ==
    /\ Rejected
    /\ \E t \in Keys(tasks) :
          \E d \in DependenciesOf(tasks, t) \ Keys(tasks) :
              <<"Task '", t, "' depends on missing task '", d, "'">>
                  \in Range(result.errors)

\* -------------------------------------------------------------------- C10
\* C10: for a pipeline whose dependency graph has a cycle of any length,
\* validate() returns a non-empty list, and execute() reports success = false
\* with no completed and no failed task, having called no work function.
C10_CycleIsRejected ==
    /\ HasCycle(tasks) => validate(tasks) # <<>>
    /\ (Called /\ HasCycle(pre.tasks)) =>
          /\ Rejected
          /\ result.success = FALSE
          /\ Len(result.completed_tasks) = 0
          /\ Len(result.failed_tasks) = 0
          /\ invoked = <<>>
          /\ \E t \in Keys(tasks) : CircularMsg(t) \in Range(result.errors)

\* a rejected pipeline whose only cycle has length three
C10_Witness ==
    /\ Rejected
    /\ HasCycle(tasks)
    /\ \A t \in Keys(tasks) :
          /\ t \notin DependenciesOf(tasks, t)
          /\ \A d \in DependenciesOf(tasks, t) :
                t \notin DependenciesOf(tasks, d)

\* -------------------------------------------------------------------- C11
\* the orders in which the names of S can be listed, each name once
Orderings(S) ==
    {s \in [1..Cardinality(S) -> S] :
        \A i \in 1..Cardinality(S) : \A j \in 1..Cardinality(S) :
            s[i] = s[j] => i = j}

\* ts is the linear chain chain[1] <- chain[2] <- ... <- chain[n]
IsChain(ts, chain) ==
    /\ Len(chain) = Len(ts)
    /\ Range(chain) = Keys(ts)
    /\ \A i \in 1..Len(chain) :
          Get(ts, chain[i]).dependencies =
              (IF i = 1 THEN <<>> ELSE <<chain[i - 1]>>)

IsPrefix(s, t) == Len(s) <= Len(t) /\ s = SubSeq(t, 1, Len(s))

\* what every chain has: one task without dependency, one dependency for
\* each of the others
MayBeChain(ts) ==
    /\ Cardinality({i \in 1..Len(ts) : ts[i].dependencies = <<>>}) = 1
    /\ \A i \in 1..Len(ts) : Len(ts[i].dependencies) <= 1

\* C11: a freshly built pipeline that is a linear chain T1 <- ... <- Tn is
\* executed in chain order whatever the order its tasks were added in: the
\* work functions are called in chain order, and when all of them succeeded
\* the run returns execution_order = completed_tasks = <<T1, ..., Tn>>.
C11_ChainRunsInChainOrder ==
    (Called /\ FreshRun /\ result.kind # "errors" /\ MayBeChain(pre.tasks)) =>
        \A chain \in Orderings(Keys(pre.tasks)) :
            IsChain(pre.tasks, chain) =>
                /\ IsPrefix(invoked, chain)
                /\ (Returned /\ result.failed_tasks = <<>>) =>
                      /\ invoked = chain
                      /\ result.execution_order = chain
                      /\ result.completed_tasks = chain

\* a chain of four, added with its last task first, ran to the end
C11_Witness ==
    /\ Returned /\ FreshRun
    /\ Len(tasks) = 4
    /\ \E chain \in Orderings(Keys(tasks)) :
          /\ IsChain(pre.tasks, chain)
          /\ tasks[1].name = chain[4]
          /\ result.execution_order = chain
          /\ result.completed_tasks = chain

\* -------------------------------------------------------------------- C12
\* C12: all work functions of one run are given the same context object, the
\* one the pipeline holds; each sees the entries the caller supplied and the
\* keys written by every function called before it in the run, in earlier
\* rounds or in its own; the context the run returns holds every key written
\* in the run, also the keys of the tasks that failed.
C12_ContextIsShared ==
    /\ \A i \in 1..Len(received) :
          /\ received[i].obj = context_obj
          /\ OrEmpty(initial_context) \subseteq received[i].keys
          /\ \A j \in 1..(i - 1) : invoked[j] \in received[i].keys
    /\ Called => Range(invoked) \subseteq context
    /\ Returned =>
          /\ result.context = context
          /\ Range(invoked) \subseteq result.context

\* a task failed after its write, the next task of the same round saw the
\* key, and the returned context holds it next to the caller's entry
C12_Witness ==
    /\ Returned
    /\ "seed" \in result.context
    /\ \E i \in 1..(Len(invoked) - 1) :
          /\ StatusOf(tasks, invoked[i]) = FAILED
          /\ DependenciesOf(tasks, invoked[i]) = {}
          /\ DependenciesOf(tasks, invoked[i + 1]) = {}
          /\ invoked[i] \in received[i + 1].keys
          /\ invoked[i] \in result.context

\* -------------------------------------------------------------------- C16
\* the keys written by the first i - 1 calls of the run
WrittenBefore(i) == {invoked[j] : j \in 1..(i - 1)}

\* C16 as stated: when execute() is called without an initial context, the
\* context left by the previous run is kept and the tasks of the run see it.
C16_ContextIsReused ==
    (Called /\ ~initial_context.given) =>
        \A i \in 1..Len(received) : pre.context \subseteq received[i].keys

\* C16 (amended): the context persists after a run until the next call of
\* execute(), which always replaces it: by the caller's mapping when that is
\* given and not empty, otherwise by a new empty mapping. The tasks of a run
\* see the caller's entries and the keys written earlier in the same run,
\* nothing of the context an earlier run left.
C16_AtEachCall ==
    Called =>
        /\ context_obj # pre.context_obj
        /\ context_obj =
              (IF initial_context.given /\ initial_context.keys # {}
               THEN <<"caller", runs>> ELSE <<"new", runs>>)
        /\ \A i \in 1..Len(received) :
              received[i].keys =
                  (IF initial_context.given THEN initial_context.keys ELSE {})
                      \cup WrittenBefore(i)

C16_ContextIsReplacedByEachCall ==
    /\ []C16_AtEachCall
    /\ [][(pc = "idle" /\ runs' = runs) =>
              (context' = context /\ context_obj' = context_obj)]_vars

\* a task of a second run, called without an initial context, is given an
\* empty context although the run before left keys in the stored one
C16_Witness ==
    /\ pc = "call"
    /\ runs = 2
    /\ ~initial_context.given
    /\ pre.context # {}
    /\ received[Len(received)].keys = {}

\* -------------------------------------------------------------------- C17
\* C17 as stated: after a call of execute() that validation rejected, the
\* tasks, the execution_order and the stored context are as before the call.
C17_RejectedCallChangesNothing ==
    Rejected =>
        /\ tasks = pre.tasks
        /\ execution_order = pre.execution_order
        /\ context = pre.context

\* C17 (amended): a call of execute() that validation rejects calls no work
\* function and leaves the tasks and the execution_order as they were; the
\* stored context is replaced as by any call, by the caller's mapping when
\* that is given and not empty and by a new empty mapping otherwise.
C17_RejectedCallReplacesOnlyContext ==
    Rejected =>
        /\ tasks = pre.tasks
        /\ execution_order = pre.execution_order
        /\ invoked = <<>>
        /\ context = (IF initial_context.given THEN initial_context.keys ELSE {})
        /\ context_obj =
              (IF initial_context.given /\ initial_context.keys # {}
               THEN <<"caller", runs>> ELSE <<"new", runs>>)

\* a rejected call on a pipeline with a Completed task: the keys the earlier
\* run left in the stored context are gone, the caller's entry is there
C17_Witness ==
    /\ Rejected
    /\ \E t \in Keys(tasks) : StatusOf(tasks, t) = COMPLETED
    /\ pre.context # {}
    /\ context = {"seed"}
    /\ context_obj = <<"caller", runs>>

\* -------------------------------------------------------------------- C14
\* C14 as stated, for a work function that raises: when the call of
\* Task.execute has ended the status is Failed and error holds the failure's
\* text, and no task remains Running.
C14_NeverRemainsRunning ==
    pc = "idle" =>
        /\ \A t \in Keys(tasks) : StatusOf(tasks, t) # RUNNING
        /\ result.kind = "raised" =>
              /\ Get(tasks, invoked[1]).status = FAILED
              /\ Get(tasks, invoked[1]).error = "str(e)"

\* C14 (amended): Task.execute sets the status to Running and the start time
\* before it calls the work function. If the function returns, the status is
\* Completed and the return value is stored as result and returned. If it
\* raises an Exception, the status is Failed, error holds the text, result is
\* unchanged and the exception is raised to the caller. If it raises what is
\* not an Exception, that is raised to the caller with status Running and
\* result and error unchanged. The completion time is set in every case.
C14_WhenTaskExecuteEnds ==
    (pc = "task" /\ pc' = "idle") =>
        LET old == Get(tasks, invoked[1])
            new == Get(tasks', invoked[1])
        IN  /\ new.completed_at = "time"
            /\ result'.kind \in {"returned", "raised"}
            /\ result'.kind = "returned" =>
                  /\ new.status = COMPLETED
                  /\ new.result = "value"
                  /\ result'.value = new.result
                  /\ new.error = old.error
            /\ (result'.kind = "raised" /\ result'.value = "raise") =>
                  /\ new.status = FAILED
                  /\ new.error = "str(e)"
                  /\ new.result = old.result
            /\ (result'.kind = "raised" /\ result'.value # "raise") =>
                  /\ new.status = RUNNING
                  /\ new.error = old.error
                  /\ new.result = old.result

C14_TaskExecute ==
    /\ [](pc = "task" =>
             /\ Get(tasks, invoked[1]).status = RUNNING
             /\ Get(tasks, invoked[1]).started_at = "time")
    /\ [][C14_WhenTaskExecuteEnds]_vars

\* a task that completed was executed again and failed: Failed, with the
\* error text and the result of the earlier call
C14_Witness ==
    /\ pc = "idle"
    /\ result.kind = "raised"
    /\ result.value = "raise"
    /\ Get(tasks, invoked[1]).status = FAILED
    /\ Get(tasks, invoked[1]).error = "str(e)"
    /\ Get(tasks, invoked[1]).result = "value"

\* -------------------------------------------------------------------- C15
\* C15: can_run(completed) is true exactly when every name of the task's
\* dependency list is in completed, so always for a task without
\* dependencies; it does not depend on the task's status, a call changes
\* nothing, and a repeated call with the same list gives the same answer.
C15_AnswerIsRight ==
    /\ \A t \in Keys(tasks) : \A completed \in CompletedLists :
          /\ can_run(Get(tasks, t), completed)
                <=> DependenciesOf(tasks, t) \subseteq Range(completed)
          /\ DependenciesOf(tasks, t) = {} => can_run(Get(tasks, t), completed)
          /\ \A status \in TaskStatus :
                can_run([Get(tasks, t) EXCEPT !.status = status], completed)
                    <=> can_run(Get(tasks, t), completed)
    /\ result.kind = "can_run" =>
          result.value
              <=> DependenciesOf(tasks, result.name)
                      \subseteq Range(result.completed_tasks)

C15_CanRunIsPure ==
    /\ []C15_AnswerIsRight
    /\ [][result'.kind = "can_run" =>
              /\ tasks' = tasks
              /\ context' = context
              /\ execution_order' = execution_order
              /\ (/\ result.kind = "can_run"
                  /\ result'.name = result.name
                  /\ result'.completed_tasks = result.completed_tasks)
                    => result'.value = result.value]_vars

\* can_run answered no for a Completed task and yes for a Failed one
C15_Witness ==
    /\ result.kind = "can_run"
    /\ \/ /\ ~result.value
          /\ StatusOf(tasks, result.name) = COMPLETED
       \/ /\ result.value
          /\ StatusOf(tasks, result.name) = FAILED
          /\ DependenciesOf(tasks, result.name) # {}

\* -------------------------------------------------------------------- C13
\* the step is a call of execute_pipeline that found its pipeline
ExecutePipelineRuns == pc = "idle" /\ runs' = runs + 1

\* C13: execute_pipeline(name, context) for a name that is not registered,
\* never created or created and deleted, returns success = false with the
\* error "Pipeline not found: <name>", raises nothing, calls no work function
\* and changes neither the registry nor any pipeline; for a registered name
\* it is Pipeline.execute(context) on the pipeline registered under the name,
\* and its result is the result of that call.
C13_AtTheCall ==
    /\ result'.kind = "not found" =>
          /\ requested' \notin Keys(pipelines)
          /\ result' = [kind |-> "not found", success |-> FALSE,
                        error |-> <<"Pipeline not found: ", requested'>>]
          /\ pc' = "idle"
          /\ invoked' = <<>>
          /\ pipelines' = pipelines
          /\ objects' = objects
          /\ Loaded' = Loaded
    /\ ExecutePipelineRuns =>
          /\ requested' \in Keys(pipelines)
          /\ held' = Get(pipelines, requested').pipeline
          /\ pre' = Fields(held')
          /\ tasks' = pre'.tasks
          /\ pipelines' = pipelines
          /\ \A i \in DOMAIN objects' : objects'[i] = Fields(i)
          /\ validate(pre'.tasks) # <<>> =>
                result' = [NoResult EXCEPT !.kind = "errors",
                                           !.errors = validate(pre'.tasks)]
          /\ validate(pre'.tasks) = <<>> => pc' = "loop"

C13_ExecutePipeline ==
    /\ [][C13_AtTheCall]_vars
    /\ [](Returned =>
             /\ result.completed_tasks = SelectSeq(invoked,
                   LAMBDA t : StatusOf(tasks, t) = COMPLETED)
             /\ result.failed_tasks = SelectSeq(invoked,
                   LAMBDA t : StatusOf(tasks, t) = FAILED)
             /\ result.execution_order = execution_order
             /\ result.context = context
             /\ result.success <=> result.failed_tasks = <<>>)

\* a pipeline that was run through the manager and deleted is not found
\* while another pipeline, never run, is registered
C13_Witness ==
    /\ result.kind = "not found"
    /\ requested = "p"
    /\ held = 1
    /\ execution_order # <<>>
    /\ pipelines # <<>>

\* -------------------------------------------------------------------- C18
\* the step is a call of create_pipeline
CreateStep == created' = created + 1
\* the step is a call of get_pipeline
GetStep == result'.kind = "pipeline" /\ created' = created

\* C18: create_pipeline(name) registers a new, empty pipeline under name and
\* returns it; a pipeline registered under the name before is replaced, and
\* the new one has none of its tasks, execution_order or context; the
\* pipelines under other names are untouched; get_pipeline(name) returns the
\* pipeline registered under name, the one created last.
C18_AtTheCall ==
    /\ CreateStep =>
          /\ result' = [kind |-> "pipeline", value |-> created']
          /\ created' \notin Registered(pipelines)
          /\ Lookup(pipelines', requested') = created'
          /\ Keys(pipelines') = Keys(pipelines) \cup {requested'}
          /\ held' = created'
          /\ Loaded' =
                [tasks |-> <<>>, execution_order |-> <<>>, context |-> {},
                 context_obj |-> <<"init", created'>>]
          /\ requested' \in Keys(pipelines) =>
                context_obj'
                    # Fields(Lookup(pipelines, requested')).context_obj
          /\ \A other \in Keys(pipelines) \ {requested'} :
                /\ Lookup(pipelines', other) = Lookup(pipelines, other)
                /\ Fields(Lookup(pipelines, other))'
                      = Fields(Lookup(pipelines, other))
    /\ GetStep =>
          /\ result'.value = Lookup(pipelines, requested')
          /\ pipelines' = pipelines
          /\ result'.value # 0 =>
                /\ held' = result'.value
                /\ Loaded' = Fields(result'.value)
    /\ pipelines' # pipelines => (CreateStep \/ result'.kind = "deleted")

C18_CreateReplaces ==
    /\ [][C18_AtTheCall]_vars
    /\ [](\A i \in 1..Len(pipelines) : pipelines[i].pipeline \in 1..created)

\* create_pipeline("p") replaced a pipeline that had run, next to another
\* registered pipeline: the pipeline now under "p" is empty
C18_Witness ==
    /\ result.kind = "pipeline"
    /\ requested = "p"
    /\ result.value = created
    /\ Lookup(pipelines, "p") = created
    /\ pre.tasks # <<>>
    /\ pre.execution_order # <<>>
    /\ pre.context # {}
    /\ tasks = <<>> /\ execution_order = <<>> /\ context = {}
    /\ "q" \in Keys(pipelines)

\* -------------------------------------------------------------------- C19
\* C19: the registry holds exactly the names created and not deleted since:
\* create_pipeline adds its name, delete_pipeline removes its name and
\* nothing else does either; list_pipelines() gives these names, each once,
\* and pipelines_count their number. delete_pipeline(name) returns true
\* exactly when name was registered; after it get_pipeline(name) is absent,
\* and a delete_pipeline of a name that is not registered returns false and
\* changes nothing.
C19_AtTheCall ==
    /\ CreateStep => Keys(pipelines') = Keys(pipelines) \cup {requested'}
    /\ result'.kind = "deleted" =>
          /\ result'.value <=> requested' \in Keys(pipelines)
          /\ Keys(pipelines') = Keys(pipelines) \ {requested'}
          /\ Lookup(pipelines', requested') = 0
          /\ pipelines' = SelectSeq(pipelines,
                                    LAMBDA e : e.name # requested')
          /\ Loaded' = Loaded
          /\ ~result'.value => objects' = objects
    /\ (~CreateStep /\ result'.kind # "deleted") => pipelines' = pipelines

C19_Answers ==
    /\ Len(pipelines) = Cardinality(Keys(pipelines))
    /\ result.kind = "names" =>
          /\ Range(result.value) = Keys(pipelines)
          /\ Len(result.value) = Cardinality(Keys(pipelines))
    /\ result.kind = "status" =>
          /\ result.pipelines_count = Cardinality(Keys(pipelines))
          /\ result.pipelines = Keys(pipelines)

C19_RegistryIsCreatedMinusDeleted ==
    /\ [][C19_AtTheCall]_vars
    /\ []C19_Answers

\* "p", registered from the start, was deleted and is deleted again: false,
\* with the pipeline created under "q" still registered
C19_Witness ==
    /\ result.kind = "deleted"
    /\ ~result.value
    /\ requested = "p"
    /\ Keys(pipelines) = {"q"}

\* ---------------------------------------------------------------------
\* C20  ContextManager versioning. create_context stores a context with
\* version 1. update_context on a context that is held increases its
\* version by exactly 1 and appends exactly one history entry, which
\* carries the id, the new version and the keys of the update; with
\* merge=True the keys of the update take the update's values and every
\* other key keeps its value, with merge=False the data is the update.
\* update_context on an id that is not held stores the context at version
\* 1 and appends no history entry.
\* ---------------------------------------------------------------------
CreateContextStep == last_call'.op = "create_context"
UpdateContextStep == last_call'.op = "update_context"

C20_AtTheCall ==
    /\ CreateContextStep =>
          LET c == Context(contexts', last_call'.context_id)
          IN  /\ last_call'.context_id \in Ids(contexts')
              /\ c.version = 1
              /\ c.data = last_call'.data
              /\ context_history' = context_history
    /\ (UpdateContextStep /\ last_call'.context_id \in Ids(contexts)) =>
          LET id == last_call'.context_id
              data == last_call'.data
              old == Context(contexts, id)
              new == Context(contexts', id)
          IN  /\ Ids(contexts') = Ids(contexts)
              /\ new.version = old.version + 1
              /\ Len(context_history') = Len(context_history) + 1
              /\ SubSeq(context_history', 1, Len(context_history))
                    = context_history
              /\ LET entry == context_history'[Len(context_history')]
                 IN  /\ entry.context_id = id
                     /\ entry.version = new.version
                     /\ entry.changes = DOMAIN data
              /\ last_call'.merge =>
                    /\ DOMAIN new.data = DOMAIN old.data \cup DOMAIN data
                    /\ \A k \in DOMAIN data : new.data[k] = data[k]
                    /\ \A k \in DOMAIN old.data \ DOMAIN data :
                          new.data[k] = old.data[k]
              /\ ~last_call'.merge => new.data = data
    /\ (UpdateContextStep /\ last_call'.context_id \notin Ids(contexts)) =>
          LET c == Context(contexts', last_call'.context_id)
          IN  /\ last_call'.context_id \in Ids(contexts')
              /\ c.version = 1
              /\ c.data = last_call'.data
              /\ context_history' = context_history

C20_Versioning == [][C20_AtTheCall]_vars

\* a second update of "c1", with merge=True and the key 1 only: version 3,
\* two history entries, and "x" still has the value an earlier call gave it
C20_Witness ==
    /\ last_call.op = "update_context"
    /\ last_call.merge
    /\ last_call.data = (<<"int", 1>> :> 1)
    /\ "c1" \in Ids(contexts)
    /\ Context(contexts, "c1").version = 3
    /\ Context(contexts, "c1").data =
          (<<"int", 1>> :> 1) @@ (<<"str", "x">> :> 2)
    /\ Len(context_history) = 2
    /\ context_history[2] =
          HistoryEntry("c1", 3, (<<"int", 1>> :> 1))

\* ---------------------------------------------------------------------
\* C21  share_between_contexts(source, target, keys)
\* ---------------------------------------------------------------------
ShareStep == last_call'.op = "share_between_contexts"

\* the source is held and holds at least one of the listed keys
Shares ==
    /\ last_call'.source_id \in Ids(contexts)
    /\ DOMAIN Context(contexts, last_call'.source_id).data
          \cap last_call'.keys # {}

\* the data of the target before the call; none when it is not held
TargetData ==
    IF last_call'.target_id \in Ids(contexts)
    THEN Context(contexts, last_call'.target_id).data
    ELSE <<>>

\* the target now holds the listed keys of the source with the source's
\* values, and every other key it had with the value it had
Copied ==
    LET source == Context(contexts, last_call'.source_id).data
        listed == DOMAIN source \cap last_call'.keys
        target == Context(contexts', last_call'.target_id).data
    IN  /\ last_call'.target_id \in Ids(contexts')
        /\ DOMAIN target = DOMAIN TargetData \cup listed
        /\ \A k \in listed : target[k] = source[k]
        /\ \A k \in DOMAIN TargetData \ listed : target[k] = TargetData[k]

\* the contexts other than the target are the ones held before, unchanged
OthersKept ==
    /\ Ids(contexts') = Ids(contexts) \cup {last_call'.target_id}
    /\ \A id \in Ids(contexts) \ {last_call'.target_id} :
          Context(contexts', id) = Context(contexts, id)

\* C21 as stated: the call copies the listed keys, leaves the whole source
\* unchanged and returns true; it returns false and changes no context when
\* the source is not held or holds none of the listed keys.
C21_AsStated ==
    /\ (ShareStep /\ Shares) =>
          /\ Copied
          /\ Context(contexts', last_call'.source_id) =
                Context(contexts, last_call'.source_id)
          /\ result' = ReturnedTrue
    /\ (ShareStep /\ ~Shares) =>
          /\ result' = ReturnedFalse
          /\ contexts' = contexts

C21_ShareLeavesSourceAndReturnsTrue == [][C21_AsStated]_vars

\* C21: when the source is held and holds a listed key, the call copies into
\* the target exactly the listed keys the source holds, leaves every other
\* key of the target, the data of the source and every other context
\* unchanged; a source that is not the target is unchanged as a whole,
\* a source that is the target has its version increased by 1. The call
\* returns true unless auto-save is on and the storage directory is
\* missing: then it raises FileNotFoundError after the copy. When the source
\* is not held or holds none of the listed keys the call returns false and
\* changes no context, no history and no file.
C21_AtTheCall ==
    /\ (ShareStep /\ Shares) =>
          LET source_id == last_call'.source_id
              target_id == last_call'.target_id
          IN  /\ Copied
              /\ OthersKept
              /\ Context(contexts', source_id).data =
                    Context(contexts, source_id).data
              /\ (source_id = target_id) =>
                    Context(contexts', source_id).version =
                       Context(contexts, source_id).version + 1
              /\ result' =
                    (IF auto_save /\ ~dir_exists THEN FileNotFound
                                                ELSE ReturnedTrue)
    /\ (ShareStep /\ ~Shares) =>
          /\ result' = ReturnedFalse
          /\ UNCHANGED <<contexts, context_history, files>>

C21_Share == [][C21_AtTheCall]_vars

\* "x" was shared from "c1" to "c2": "c2" has the value of "c1" under "x"
\* and its own value under 1
C21_Witness ==
    /\ last_call.op = "share_between_contexts"
    /\ last_call.source_id = "c1"
    /\ last_call.target_id = "c2"
    /\ last_call.keys = {<<"str", "x">>}
    /\ result = ReturnedTrue
    /\ Context(contexts, "c1").data = (<<"str", "x">> :> 1)
    /\ Context(contexts, "c2").data =
          (<<"str", "x">> :> 1) @@ (<<"int", 1>> :> 2)
    /\ Context(contexts, "c2").version = 2

\* ---------------------------------------------------------------------
\* C22  temp_context(id): the context id is held as long as the caller is
\* in the with-block, and once the block is left, normally or by raising,
\* the id is not held (get_context returns None) and has no stored file.
\* The block is entered only when create_context did not raise.
\* ---------------------------------------------------------------------
C22_InTheBlock == within # "" => within \in Ids(contexts)

C22_AtTheEnds ==
    /\ (within = "" /\ within' # "") =>
          /\ last_call'.op = "temp_context"
          /\ result' = Yielded
          /\ Context(contexts', within') = NewContext(within', <<>>)
    /\ (within # "" /\ within' = "") =>
          /\ last_call'.op = "temp_context_exit"
          /\ within \notin Ids(contexts')
          /\ ~files'[within].exists
          /\ result' = (IF last_call'.how = "normal" THEN LeftBlock
                                                    ELSE BlockRaised)
          /\ \A id \in Ids(contexts) \ {within} :
                Context(contexts', id) = Context(contexts, id)

C22_TempContext == []C22_InTheBlock /\ [][C22_AtTheEnds]_vars

\* the block of "tmp", whose context was saved to a file, ended by raising:
\* "tmp" is not held and has no file, "c1" is still held
C22_Witness ==
    /\ last_call.op = "temp_context_exit"
    /\ last_call.context_id = "tmp"
    /\ last_call.how = "raising"
    /\ result = BlockRaised
    /\ auto_save /\ dir_exists
    /\ Ids(contexts) = {"c1"}
    /\ ~files["tmp"].exists
    /\ files["c1"].exists

\* ---------------------------------------------------------------------
\* C23  save_context / load_context round trip, delete_context
\* ---------------------------------------------------------------------
SaveStep == last_call'.op = "save_context"
LoadStep == last_call'.op = "load_context"
DeleteStep == last_call'.op = "delete_context"

\* all the keys of the data are strings
StringKeys(data) == \A k \in DOMAIN data : k[1] = "str"

\* the key under which a key of the saved data is found after loading
AsString(k) == <<"str", IF k[1] = "int" THEN ToString(k[2]) ELSE k[2]>>

\* delete_context returns true exactly when the context is held, and then
\* the context and its file are gone; a load_context that follows returns
\* false
C23_Delete ==
    /\ DeleteStep =>
          LET id == last_call'.context_id
          IN  /\ result' = (IF id \in Ids(contexts) THEN ReturnedTrue
                                                   ELSE ReturnedFalse)
              /\ id \in Ids(contexts) =>
                    /\ id \notin Ids(contexts')
                    /\ ~files'[id].exists
              /\ id \notin Ids(contexts) => UNCHANGED <<contexts, files>>
    /\ (LoadStep /\ last_call.op = "delete_context"
          /\ last_call.context_id = last_call'.context_id
          /\ result = ReturnedTrue) =>
          /\ result' = ReturnedFalse
          /\ last_call'.context_id \notin Ids(contexts')

\* C23 as stated: a load_context that finds the file save_context wrote
\* returns true and gives a context equal to the saved one.
C23_LoadedIsSaved ==
    (LoadStep /\ files[last_call'.context_id].exists) =>
        /\ result' = ReturnedTrue
        /\ Context(contexts', last_call'.context_id) =
              files[last_call'.context_id].saved

C23_RoundTripIsIdentity == [][C23_LoadedIsSaved /\ C23_Delete]_vars

\* C23: save_context(id) on a held context writes its file when the storage
\* directory exists (and raises FileNotFoundError when it does not); a
\* load_context(id) that finds the file, in this manager or in a new one on
\* the same directory, returns true and gives a context with the saved id
\* and version and with the saved data under keys turned into strings: it
\* equals the saved context exactly when all keys of the data are strings.
\* load_context returns false and changes nothing when there is no file.
C23_AtTheCall ==
    /\ (SaveStep /\ last_call'.context_id \in Ids(contexts)) =>
          LET id == last_call'.context_id
          IN  /\ UNCHANGED contexts
              /\ IF dir_exists
                 THEN /\ files'[id].exists
                      /\ files'[id].saved = Context(contexts, id)
                      /\ result' = ReturnedNone
                 ELSE /\ UNCHANGED files
                      /\ result' = FileNotFound
    /\ (LoadStep /\ files[last_call'.context_id].exists) =>
          LET id == last_call'.context_id
              saved == files[id].saved
              loaded == Context(contexts', id)
          IN  /\ result' = ReturnedTrue
              /\ id \in Ids(contexts')
              /\ loaded.id = saved.id
              /\ loaded.version = saved.version
              /\ DOMAIN loaded.data = {AsString(k) : k \in DOMAIN saved.data}
              /\ \A k \in DOMAIN saved.data :
                    loaded.data[AsString(k)] = saved.data[k]
              /\ (loaded = saved) <=> StringKeys(saved.data)
              /\ UNCHANGED files
    /\ (LoadStep /\ ~files[last_call'.context_id].exists) =>
          /\ result' = ReturnedFalse
          /\ UNCHANGED <<contexts, files>>

C23_RoundTrip == [][C23_AtTheCall /\ C23_Delete]_vars

\* a new manager loaded "c1", saved at version 2 with the keys "x" and 1:
\* it holds it at version 2 with the keys "x" and "1"
C23_Witness ==
    /\ last_call.op = "load_context"
    /\ result = ReturnedTrue
    /\ context_history = <<>>
    /\ files["c1"].exists
    /\ files["c1"].saved.version = 2
    /\ files["c1"].saved.data =
          (<<"str", "x">> :> 2) @@ (<<"int", 1>> :> 1)
    /\ Context(contexts, "c1").version = 2
    /\ Context(contexts, "c1").data =
          (<<"str", "x">> :> 2) @@ (<<"str", "1">> :> 1)

\* ---------------------------------------------------------------------
\* C24  After AIProject.initialize() returns True every component
\* registered in the project is initialized, whatever add_component,
\* remove_component and initialize calls came before; initialize() returns
\* True exactly when every component's initialize() returned True, and
\* otherwise leaves the project not initialized.
\* ---------------------------------------------------------------------
AllInitialized == \A i \in 1..Len(components) : components[i].initialized

InitializeStep == result'.kind = "initialized"

C24_AfterTrue ==
    (result.kind = "initialized" /\ result.value) => AllInitialized

C24_AtTheCall ==
    InitializeStep =>
        /\ result'.value <=>
              \A i \in 1..Len(components) : Succeeds(components[i])
        /\ ~result'.value => ~project_initialized'

C24_InitializeInitializesAll == []C24_AfterTrue /\ [][C24_AtTheCall]_vars

\* ---------------------------------------------------------------------
\* C25  FeedbackTracker.complete_milestone and the milestones
\* ---------------------------------------------------------------------
CompleteStep == last_call'.op = "complete_milestone"

\* a milestone of that name that is not completed exists
HasOpen ==
    \E i \in 1..Len(milestones) :
       milestones[i].name = last_call'.name /\ ~milestones[i].completed

\* the first open milestone of the name, and only it, is marked completed
\* with a completed_at, and exactly one event is logged for it
MarksFirstAndLogs ==
    /\ \E i \in 1..Len(milestones) :
          /\ milestones[i].name = last_call'.name
          /\ ~milestones[i].completed
          /\ \A j \in 1..(i - 1) :
                milestones[j].name # last_call'.name
                   \/ milestones[j].completed
          /\ Len(milestones') = Len(milestones)
          /\ milestones'[i].completed
          /\ milestones'[i].completed_at # "None"
          /\ milestones'[i].name = milestones[i].name
          /\ \A j \in 1..Len(milestones) :
                j # i => milestones'[j] = milestones[j]
    /\ Len(events') = Len(events) + 1
    /\ SubSeq(events', 1, Len(events)) = events
    /\ events'[Len(events')].message =
          <<"Milestone completed", last_call'.name>>

\* no step turns a completed milestone back, or removes a milestone
StaysCompleted ==
    /\ Len(milestones') >= Len(milestones)
    /\ \A i \in 1..Len(milestones) :
          milestones[i].completed => milestones'[i].completed

\* every completed milestone has a completed_at, and a summary counts no
\* more completed milestones than milestones
C25_Always ==
    /\ \A i \in 1..Len(milestones) :
          milestones[i].completed => milestones[i].completed_at # "None"
    /\ result.kind = "summary" =>
          /\ result.completed <= result.total
          /\ result.total = Len(milestones)

\* C25 as stated: complete_milestone returns true exactly when an open
\* milestone of the name exists.
C25_ReturnsTrueExactlyWhenOpen ==
    /\ [][CompleteStep => (result' = ReturnedTrue <=> HasOpen)]_vars
    /\ [][(CompleteStep /\ HasOpen) => MarksFirstAndLogs]_vars
    /\ [][StaysCompleted]_vars
    /\ []C25_Always

\* C25: when an open milestone of the name exists, complete_milestone marks
\* the first such milestone completed, sets its completed_at and logs
\* exactly one 'Milestone completed' event; it then returns true, unless a
\* listener raises when it is given the event: that exception leaves
\* complete_milestone after the milestone was marked and the event logged.
\* It returns false and changes nothing when no such milestone exists. No
\* step turns a completed milestone back, every completed milestone has a
\* completed_at, and the summary's completed count never exceeds its total.
C25_AtTheCall ==
    /\ (CompleteStep /\ HasOpen) =>
          /\ MarksFirstAndLogs
          /\ result' = (IF \E i \in 1..Len(listeners) :
                              listeners[i] = "raises"
                        THEN ListenerRaised ELSE ReturnedTrue)
    /\ (CompleteStep /\ ~HasOpen) =>
          /\ result' = ReturnedFalse
          /\ UNCHANGED <<milestones, events>>
    /\ StaysCompleted

C25_CompleteMilestone == [][C25_AtTheCall]_vars /\ []C25_Always

\* of two open milestones named "m1" the first was completed, the second is
\* still open; the call returned true
C25_Witness ==
    /\ last_call.op = "complete_milestone"
    /\ last_call.name = "m1"
    /\ result = ReturnedTrue
    /\ Len(milestones) = 3
    /\ milestones[1] = NewMilestone("m2", TRUE)
    /\ milestones[2].name = "m1" /\ milestones[2].completed
    /\ milestones[3] = NewMilestone("m1", FALSE)
    /\ Len(events) = 2

\* -------------------------------------------------------------------- C26
Max(S) == CHOOSE x \in S : \A y \in S : y <= x

\* the length of the longest dependency chain that ends in a task of an
\* acyclic graph: 0 for a task without dependencies
RECURSIVE LongestChain(_, _, _)
LongestChain(ts, name, n) ==
    IF n = 0 \/ DependenciesOf(ts, name) \cap Keys(ts) = {} THEN 0
    ELSE 1 + Max({LongestChain(ts, d, n - 1) :
                     d \in DependenciesOf(ts, name) \cap Keys(ts)})

RoundOf(ts, name) == 1 + LongestChain(ts, name, Len(ts))

\* the depth of the graph: the number of tasks on its longest chain
GraphDepth(ts) ==
    IF ts = <<>> THEN 0 ELSE Max({RoundOf(ts, n) : n \in Keys(ts)})

\* the tasks that can run, from the state a round starts in
PendingAndReady(ts, completed) ==
    {n \in Keys(ts) :
        /\ StatusOf(ts, n) = PENDING
        /\ DependenciesOf(ts, n) \subseteq Range(completed)}

\* every dependency of an executed task was executed in an earlier round of
\* the run; in a run of a fresh pipeline each call is made in round
\* 1 + (longest dependency chain of its task), and when all tasks succeeded
\* the run had as many rounds as the graph is deep
C26_InTheRun ==
    /\ \A i \in 1..Len(invoked) :
          \A d \in DependenciesOf(tasks, invoked[i]) :
              \E j \in 1..Len(invoked) :
                  /\ invoked[j] = d
                  /\ received[j].round < received[i].round
    /\ (Called /\ FreshRun) =>
          \A i \in 1..Len(invoked) :
              received[i].round = RoundOf(pre.tasks, invoked[i])
    /\ (Returned /\ FreshRun /\ result.failed_tasks = <<>>) =>
          /\ Range(invoked) = Keys(tasks)
          /\ rounds = GraphDepth(pre.tasks)

\* a round's members are the tasks that could run in the state the round
\* started in, and no task joins a round under way
C26_AtTheStep ==
    /\ (pc = "loop" /\ pc' = "round") =>
          /\ rounds' = rounds + 1
          /\ Range(runnable_tasks') = PendingAndReady(tasks, completed_tasks)
    /\ pc \in {"round", "call"} =>
          /\ rounds' = rounds
          /\ Range(runnable_tasks') \subseteq Range(runnable_tasks)

\* C26: round membership is computed from the state before any task of the
\* round ran: a task is never executed in the round in which one of its
\* dependencies completes, so in a run of a fresh valid pipeline whose tasks
\* all succeed a task executes in round 1 + (length of its longest dependency
\* chain), and the number of rounds equals the depth of the graph.
C26_Rounds == []C26_InTheRun /\ [][C26_AtTheStep]_vars

\* a fresh run of a chain of three tasks beside a fourth returned with all
\* tasks completed, after three rounds
C26_Witness ==
    /\ Returned /\ FreshRun
    /\ result.failed_tasks = <<>>
    /\ Len(invoked) = 4
    /\ rounds = 3
    /\ \E i \in 1..4 : \E j \in 1..4 :
          /\ i # j
          /\ received[i].round = 1 /\ received[j].round = 1
    /\ \E i \in 1..4 : received[i].round = 3

\* -------------------------------------------------------------------- C27
NoDuplicates(s) == \A i \in 1..Len(s) : \A j \in 1..Len(s) : s[i] = s[j] => i = j

\* the two lists of a returned run of a fresh pipeline against the statuses
C27_AtReturn ==
    (Returned /\ FreshRun) =>
        LET completed == result.completed_tasks
            failed == result.failed_tasks
        IN  /\ NoDuplicates(completed)
            /\ NoDuplicates(failed)
            /\ Range(completed) \cap Range(failed) = {}
            /\ Range(completed) \cup Range(failed) \subseteq Keys(tasks)
            /\ \A t \in Keys(tasks) :
                  /\ t \in Range(completed) <=> StatusOf(tasks, t) = COMPLETED
                  /\ t \in Range(failed) <=> StatusOf(tasks, t) = FAILED
                  /\ t \notin Range(completed) \cup Range(failed)
                        => StatusOf(tasks, t) = SKIPPED
                  /\ StatusOf(tasks, t) \notin {PENDING, RUNNING}

\* the step on which the loop of a run ends with a result
C27_AtTheEnd ==
    (pc = "loop" /\ pc' = "idle") =>
        /\ result'.kind = "result"
        /\ \/ Len(completed_tasks) + Len(failed_tasks) >= Len(tasks)
           \/ PendingAndReady(tasks, completed_tasks) = {}
        /\ FreshRun =>
              (Len(completed_tasks) + Len(failed_tasks) >= Len(tasks)
                  <=> Range(completed_tasks) \cup Range(failed_tasks)
                          = Keys(tasks))

\* C27: when execute() on a freshly built valid pipeline returns,
\* completed_tasks and failed_tasks are duplicate-free and disjoint, a task is
\* in completed_tasks iff its status is Completed and in failed_tasks iff its
\* status is Failed, every remaining task is Skipped and none is left Pending
\* or Running; the loop ends either because completed + failed covers all
\* tasks or because no Pending task is runnable.
C27_ListsMatchStatuses == []C27_AtReturn /\ [][C27_AtTheEnd]_vars

\* a fresh run returned with two tasks completed, one failed and one skipped
C27_Witness ==
    /\ Returned /\ FreshRun
    /\ Len(result.completed_tasks) = 2
    /\ Len(result.failed_tasks) = 1
    /\ \E t \in Keys(tasks) : StatusOf(tasks, t) = SKIPPED

\* -------------------------------------------------------------------- C28
\* a dependency cycle can be reached from the task: the task or one of its
\* direct or transitive dependencies depends on itself
CycleReachable(ts, t) ==
    \E c \in ({t} \cup Ancestors(ts, t)) \cap Keys(ts) : c \in Ancestors(ts, c)

\* the entries of the task's dependency list that name no task
MissingEntries(ts, t) ==
    {i \in 1..Len(Get(ts, t).dependencies) :
        Get(ts, t).dependencies[i] \notin Keys(ts)}

RECURSIVE Sum(_, _)
Sum(f, S) ==
    IF S = {} THEN 0
    ELSE LET x == CHOOSE y \in S : TRUE IN f[x] + Sum(f, S \ {x})

\* the list validate() returned, against the graph it was called on
C28_TheList ==
    result.kind = "validated" =>
        LET errors == result.errors
            circular(t) ==
                <<"Circular dependency detected for task: ", t>>
            missing(t, d) ==
                <<"Task '", t, "' depends on missing task '", d, "'">>
        IN  /\ \A t \in Keys(tasks) :
                  Count(errors, circular(t)) =
                      (IF CycleReachable(tasks, t) THEN 1 ELSE 0)
            /\ \A t \in Keys(tasks) : \A d \in ValidateDepNames :
                  Count(errors, missing(t, d)) =
                      Cardinality({i \in MissingEntries(tasks, t) :
                                      Get(tasks, t).dependencies[i] = d})
            /\ Len(errors) =
                  Cardinality({t \in Keys(tasks) : CycleReachable(tasks, t)})
                  + Sum([t \in Keys(tasks) |->
                            Cardinality(MissingEntries(tasks, t))],
                        Keys(tasks))

\* what a call of validate() leaves as it was
C28_AtTheCall ==
    (result.kind = "none" /\ result'.kind = "validated") =>
        UNCHANGED <<tasks, execution_order, context, context_obj, pc>>

\* C28: validate() returns exactly one 'Circular dependency' message for each
\* task from which a dependency cycle is reachable (the tasks on the cycle and
\* the tasks that depend, directly or transitively, on a task of the cycle)
\* and none for any other task, plus exactly one 'missing task' message per
\* dependency-list entry whose name is not in the task mapping; validate()
\* itself changes no pipeline or task state.
C28_ValidateMessages == []C28_TheList /\ [][C28_AtTheCall]_vars

\* validate() returned one circular message for a task that is on no cycle
\* and depends on one, none for a third task, and two missing messages for
\* one name that a list holds twice
C28_Witness ==
    /\ result.kind = "validated"
    /\ \E t \in Keys(tasks) :
          /\ t \notin Ancestors(tasks, t)
          /\ CycleReachable(tasks, t)
    /\ \E t \in Keys(tasks) : ~CycleReachable(tasks, t)
    /\ \E t \in Keys(tasks) :
          /\ Get(tasks, t).dependencies = <<"X", "X">>
          /\ Count(result.errors, MissingMsg(t, "X")) = 2

\* -------------------------------------------------------------------- C29
\* the status changes a task can make
Lifecycle ==
    {<<PENDING, RUNNING>>, <<RUNNING, COMPLETED>>, <<RUNNING, FAILED>>,
     <<PENDING, SKIPPED>>}

Settled == {COMPLETED, FAILED, SKIPPED}

\* a step of execute(): the tasks are the objects they were
InExecute == edits' = edits /\ Keys(tasks') = Keys(tasks)

\* each status change of a step of execute() is one of the lifecycle, only
\* a Pending task is called, and a settled task is left as it is
C29_AtTheStep ==
    InExecute =>
        /\ \A t \in Keys(tasks) :
              /\ StatusOf(tasks', t) # StatusOf(tasks, t) =>
                    <<StatusOf(tasks, t), StatusOf(tasks', t)>> \in Lifecycle
              /\ StatusOf(tasks, t) \in Settled =>
                    Get(tasks', t) = Get(tasks, t)
        /\ (invoked' # invoked /\ invoked' # <<>>) =>
              /\ invoked' = Append(invoked, invoked'[Len(invoked')])
              /\ StatusOf(tasks, invoked'[Len(invoked')]) = PENDING

\* no work function is called twice in one execute() call, and what was
\* settled when the call was made is neither called nor changed by it
C29_InTheCall ==
    /\ \A t \in Keys(tasks) : Count(invoked, t) <= 1
    /\ Called =>
          \A t \in Keys(pre.tasks) :
              StatusOf(pre.tasks, t) \in Settled =>
                  /\ t \notin Range(invoked)
                  /\ t \in Keys(tasks)
                  /\ Get(tasks, t) = Get(pre.tasks, t)

\* C29: under Pipeline.execute() a task's status changes only along
\* Pending -> Running -> Completed, Pending -> Running -> Failed, or
\* Pending -> Skipped: execute() selects and skips only Pending tasks, so in
\* one execute() call each work function is invoked at most once, and a task
\* that is Completed, Failed or Skipped is never executed or changed by any
\* later execute() call on the same pipeline.
C29_StatusLifecycle == []C29_InTheCall /\ [][C29_AtTheStep]_vars

\* a second execute() returned: it called a task added after the first run
\* and left a Failed and a Skipped task of the first run alone
C29_Witness ==
    /\ Returned
    /\ runs = 2
    /\ invoked # <<>>
    /\ \A s \in {FAILED, SKIPPED} :
          \E t \in Keys(pre.tasks) :
              StatusOf(pre.tasks, t) = s /\ Get(tasks, t) = Get(pre.tasks, t)

\* -------------------------------------------------------------------- C30
\* a step leaves execution_order as it is or appends one name to it: the
\* name of the task whose work function has just returned; add_task and
\* remove_task leave it as it is
C30_AtTheStep ==
    /\ IsPrefix(execution_order, execution_order')
    /\ execution_order' # execution_order =>
          /\ pc = "call"
          /\ Len(execution_order') = Len(execution_order) + 1
          /\ LET name == execution_order'[Len(execution_order')]
             IN  /\ name = invoked[Len(invoked)]
                 /\ StatusOf(tasks, name) = RUNNING
                 /\ StatusOf(tasks', name) = COMPLETED
    /\ edits' # edits => execution_order' = execution_order

\* during and after a call execution_order is the history the call found
\* followed by the names the call completed, in completion order
C30_InTheCall ==
    /\ pc \notin {"idle", "task"} =>
          execution_order = pre.execution_order \o completed_tasks
    /\ Called => IsPrefix(pre.execution_order, execution_order)
    /\ Returned =>
          /\ result.execution_order =
                pre.execution_order \o result.completed_tasks
          /\ result.execution_order = execution_order

\* C30: the pipeline's execution_order is append-only over the pipeline's
\* whole lifetime: execute() never clears it, so each call only appends the
\* names of the tasks that completed in that call, in completion order, after
\* the history of earlier calls, and neither add_task nor remove_task removes
\* or reorders an entry; a second execute() on the same pipeline returns an
\* execution_order that still begins with the first run's entries.
C30_AppendOnly == []C30_InTheCall /\ [][C30_AtTheStep]_vars

\* a second execute() returned the name the first run completed, whose task
\* was removed since, followed by the name it completed itself
C30_Witness ==
    /\ Returned
    /\ runs = 2
    /\ Len(pre.execution_order) = 1
    /\ Len(result.execution_order) = 2
    /\ result.execution_order[1] = pre.execution_order[1]
    /\ result.execution_order[1] \notin Keys(tasks)
    /\ result.completed_tasks = <<result.execution_order[2]>>

\* -------------------------------------------------------------------- C31
\* the mapping the caller of the most recent execute() passed, as an object
CallerObject == <<"caller", runs>>

\* the keys the caller finds in that mapping: what the run wrote is there
\* only if the pipeline worked on that very object
CallerSees ==
    IF context_obj = CallerObject THEN context ELSE initial_context.keys

\* C31: the mapping the caller passes as initial_context is the very object
\* that every work function receives and that the result returns as context:
\* for any supplied mapping, also an empty one, the writes made by the tasks
\* are visible through the caller's own reference after execute() returns;
\* only when no mapping is given is a new empty mapping used.
C31_CallerMappingIsShared ==
    /\ (Called /\ initial_context.given) =>
          /\ context_obj = CallerObject
          /\ \A i \in 1..Len(received) : received[i].obj = CallerObject
    /\ (Returned /\ initial_context.given) =>
          Range(invoked) \subseteq CallerSees
    /\ (Called /\ ~initial_context.given) =>
          /\ context_obj = <<"new", runs>>
          /\ \A i \in 1..Len(received) : received[i].keys = WrittenBefore(i)

\* -------------------------------------------------------------------- C32
\* What a run does, as a function of the tasks it finds and of how each work
\* function ends (out[name] is TRUE when it returns): the statuses, and the
\* names completed and failed, computed round by round in the order of ts.
Ran(st, name, ok) ==
    [status |-> [st.status EXCEPT ![name] = IF ok THEN COMPLETED ELSE FAILED],
     completed |-> IF ok THEN Append(st.completed, name) ELSE st.completed,
     failed |-> IF ok THEN st.failed ELSE Append(st.failed, name)]

RECURSIVE RanRound(_, _, _)
RanRound(st, names, out) ==
    IF names = <<>> THEN st
    ELSE RanRound(Ran(st, Head(names), out[Head(names)]), Tail(names), out)

ReadyNames(ts, st) ==
    LET ready(i) == /\ st.status[ts[i].name] = PENDING
                    /\ Range(ts[i].dependencies) \subseteq Range(st.completed)
        is == SelectSeq([i \in 1..Len(ts) |-> i], ready)
    IN  [k \in 1..Len(is) |-> ts[is[k]].name]

RECURSIVE RanAll(_, _, _, _)
RanAll(ts, st, out, n) ==
    IF n = 0 \/ Len(st.completed) + Len(st.failed) >= Len(ts) THEN st
    ELSE IF ReadyNames(ts, st) = <<>>
         THEN [st EXCEPT !.status =
                  [t \in Keys(ts) |->
                      IF st.status[t] = PENDING THEN SKIPPED
                      ELSE st.status[t]]]
         ELSE RanAll(ts, RanRound(st, ReadyNames(ts, st), out), out, n - 1)

Expected(ts, out) ==
    RanAll(ts, [status |-> [t \in Keys(ts) |-> StatusOf(ts, t)],
                completed |-> <<>>, failed |-> <<>>],
           out, Len(ts) + 1)

\* how the work functions of the run ended, read from what they left
OutcomesOfRun == [t \in Keys(tasks) |-> StatusOf(tasks, t) # FAILED]

\* the calls of one round are made in the order the dict holds the tasks in,
\* and what a returned run gives is what Expected computes from the pipeline
\* the run found and the outcomes of the work functions
C32_InTheRun ==
    /\ \A i \in 1..Len(invoked) : \A j \in 1..Len(invoked) :
          (i < j /\ received[i].round = received[j].round) =>
              IndexOf(tasks, invoked[i]) < IndexOf(tasks, invoked[j])
    /\ Returned =>
          LET e == Expected(pre.tasks, OutcomesOfRun)
          IN  /\ result.completed_tasks = e.completed
              /\ result.failed_tasks = e.failed
              /\ result.execution_order = pre.execution_order \o e.completed
              /\ \A t \in Keys(tasks) : StatusOf(tasks, t) = e.status[t]

\* add_task and remove_task keep the tasks in the order their names were
\* first added: a replaced task keeps its place, a new name goes last
C32_AtTheEdit ==
    edits' # edits =>
        /\ \A a \in Keys(tasks) \cap Keys(tasks') :
              \A b \in Keys(tasks) \cap Keys(tasks') :
                  IndexOf(tasks, a) < IndexOf(tasks, b)
                      => IndexOf(tasks', a) < IndexOf(tasks', b)
        /\ \A n \in Keys(tasks') \ Keys(tasks) :
              IndexOf(tasks', n) = Len(tasks')

\* C32: within one round the runnable tasks are executed one after another
\* in the order in which their names were first added to the pipeline, so
\* execution is deterministic: two pipelines built by the same sequence of
\* add_task calls and whose work functions have the same outcomes produce
\* identical execution_order, completed_tasks, failed_tasks and final task
\* statuses.
C32_Deterministic == []C32_InTheRun /\ [][C32_AtTheEdit]_vars

\* a returned run called D before A in its first round: D was added first
C32_Witness ==
    /\ Returned
    /\ Len(invoked) >= 2
    /\ invoked[1] = "D" /\ invoked[2] = "A"
    /\ received[1].round = 1 /\ received[2].round = 1
    /\ result.failed_tasks # <<>>
    /\ \E t \in Keys(tasks) : StatusOf(tasks, t) = SKIPPED

\* -------------------------------------------------------------------- C33
\* the tasks stored under the names of S are the same before and after
SameTasks(S) == \A t \in S : Get(tasks', t) = Get(tasks, t)

\* what a step that is a call of add_task or remove_task does
C33_AtTheEdit ==
    edits' # edits =>
        /\ \/ \E n \in EditNames :
                 /\ Keys(tasks') = Keys(tasks) \cup {n}
                 /\ StatusOf(tasks', n) = PENDING
                 /\ Get(tasks', n).result = "None"
                 /\ SameTasks(Keys(tasks) \ {n})
           \/ \E n \in EditNames :
                 /\ Keys(tasks') = Keys(tasks) \ {n}
                 /\ SameTasks(Keys(tasks) \ {n})
        /\ Len(tasks') = Cardinality(Keys(tasks'))
        /\ UNCHANGED <<execution_order, context, context_obj, pc>>
        /\ result'.kind = "none"

\* a dangling dependency is reported by the execute() call that finds it
C33_Reported ==
    (Called /\ HasDangling(pre.tasks)) =>
        /\ Rejected
        /\ \A t \in Keys(pre.tasks) :
              \A d \in DependenciesOf(pre.tasks, t) \ Keys(pre.tasks) :
                  <<"Task '", t, "' depends on missing task '", d, "'">>
                      \in Range(result.errors)

\* C33: add_task stores the task under its name, replacing any task already
\* stored under that name; remove_task deletes the named task and is a no-op
\* for an unknown name; neither operation changes any other task, the
\* execution_order or the context, and neither triggers validation, so
\* removing a task that others depend on succeeds silently and the dangling
\* dependency is reported only by a later validate() or execute().
C33_EditsAreDirect == []C33_Reported /\ [][C33_AtTheEdit]_vars

\* A, completed by a first run, was removed while B, which depends on it,
\* stayed; the execute() call that followed reported the missing task
C33_Witness ==
    /\ Rejected
    /\ edits = 3
    /\ runs = 2
    /\ execution_order = <<"A">>
    /\ Keys(tasks) = {"B"}
    /\ Get(tasks, "B").dependencies = <<"A">>
    /\ result.errors = <<MissingMsg("B", "A")>>

\* -------------------------------------------------------------------- C34
\* execute() was called on a pipeline that passes validation and that an
\* earlier call has run
CalledAgain == Called /\ runs >= 2 /\ validate(pre.tasks) = <<>>

NonePending(ts) == \A t \in Keys(ts) : StatusOf(ts, t) # PENDING

\* the call invokes no work function and returns two empty lists and
\* success = true
NothingToDo ==
    /\ invoked = <<>>
    /\ pc = "idle" =>
          /\ Returned
          /\ result.success
          /\ result.completed_tasks = <<>>
          /\ result.failed_tasks = <<>>

\* C34 as stated: a second execute() on a pipeline whose task set is
\* unchanged since the first run invokes no work function and returns empty
\* completed_tasks and failed_tasks with success = true, however the first
\* run ended.
C34_SecondRunDoesNothing == CalledAgain => NothingToDo

\* C34 (amended): a run that returns its result leaves no task Pending, and
\* statuses are never reset to Pending; so an execute() call on a pipeline
\* whose task set is unchanged since a run that returned invokes no work
\* function and returns empty lists with success = true, also when that run
\* ended with failed or skipped tasks. After a run that a BaseException
\* ended, tasks can still be Pending, and the next call executes those of
\* them that can run.
C34_InTheCall ==
    /\ Returned => NonePending(tasks)
    /\ (CalledAgain /\ NonePending(pre.tasks)) =>
          NothingToDo /\ tasks = pre.tasks
    /\ CalledAgain =>
          \A i \in 1..Len(invoked) : StatusOf(pre.tasks, invoked[i]) = PENDING
    /\ (CalledAgain /\ ~NonePending(pre.tasks)) =>
          \E t \in Keys(pre.tasks) : StatusOf(pre.tasks, t) = RUNNING

C34_AtTheStep ==
    \A t \in Keys(tasks) \cap Keys(tasks') :
        (StatusOf(tasks, t) # PENDING /\ edits' = edits)
            => StatusOf(tasks', t) # PENDING

C34_RerunAfterReturn == []C34_InTheCall /\ [][C34_AtTheStep]_vars

\* a second execute() returned with nothing done on a pipeline that the
\* first run left with a Completed, a Failed and a Skipped task
C34_Witness ==
    /\ CalledAgain /\ Returned
    /\ NothingToDo
    /\ \A s \in Settled : \E t \in Keys(tasks) : StatusOf(tasks, t) = s

\* -------------------------------------------------------------------- C35
\* a task that was Pending when the call was made and that depends on a
\* task an earlier run had completed
WaitsForEarlier(t) ==
    /\ StatusOf(pre.tasks, t) = PENDING
    /\ \E d \in DependenciesOf(pre.tasks, t) \cap Keys(pre.tasks) :
          StatusOf(pre.tasks, d) = COMPLETED

\* the names the current call has completed before its i-th call
CompletedBefore(i) ==
    {invoked[j] : j \in {k \in 1..(i - 1) :
        /\ StatusOf(pre.tasks, invoked[k]) = PENDING
        /\ StatusOf(tasks, invoked[k]) = COMPLETED}}

Suffix(s, n) == SubSeq(s, Len(s) - n + 1, Len(s))

\* C36: for every execute() call that passes validation, the returned
\* completed_tasks is exactly the suffix of the returned execution_order that
\* this call appended; on a pipeline that has never been executed before,
\* execution_order equals completed_tasks and contains no failed or skipped
\* task.
C36_CompletedIsTheSuffix ==
    Returned =>
        LET order == result.execution_order
            appended == Len(order) - Len(pre.execution_order)
        IN  /\ appended = Len(result.completed_tasks)
            /\ Suffix(order, appended) = result.completed_tasks
            /\ SubSeq(order, 1, Len(pre.execution_order))
                  = pre.execution_order
            /\ pre.execution_order = <<>> =>
                  /\ order = result.completed_tasks
                  /\ \A i \in 1..Len(order) :
                        /\ order[i] \in Keys(tasks)
                        /\ StatusOf(tasks, order[i]) = COMPLETED
                        /\ order[i] \notin Range(result.failed_tasks)

\* a second run returned: it appended the name it completed to the one name
\* of the first run, and a task of its own failed
C36_Witness ==
    /\ Returned
    /\ Len(pre.execution_order) = 1
    /\ Len(result.completed_tasks) = 1
    /\ Len(result.execution_order) = 2
    /\ result.failed_tasks # <<>>

\* -------------------------------------------------------------------- C37
\* a step that is a call of log_event
LogStep == last_call'.op = "log_event" /\ events' # events

\* the listeners in the order they were registered in
InRegistrationOrder(ls) == [i \in 1..Len(ls) |-> i]

\* C37 as stated: log_event appends exactly one event to the event list and
\* then calls every listener registered so far exactly once with that event,
\* in registration order.
C37_AsStated ==
    LogStep =>
        /\ events' = Append(events, Logged(last_call'.message))
        /\ notified' = InRegistrationOrder(listeners)

C37_EveryListenerIsCalled == [][C37_AsStated]_vars

\* C37 (amended): log_event appends exactly one event to the event list and
\* then calls the listeners registered so far with that event, one after
\* another in registration order, each at most once; a listener that raises
\* ends the call: the listeners registered after it are not called and its
\* exception leaves log_event, with the event already appended. Events are
\* never removed or reordered, and registering a listener delivers nothing
\* to it: it receives only events logged after it was added.
C37_AtTheCall ==
    /\ IsPrefix(events, events')
    /\ LogStep =>
          /\ events' = Append(events, Logged(last_call'.message))
          /\ listeners' = listeners
          /\ IsPrefix(notified', InRegistrationOrder(listeners))
          /\ \A i \in 1..Len(notified') :
                i < Len(notified') => listeners[i] = "returns"
          /\ IF \E i \in 1..Len(listeners) : listeners[i] = "raises"
             THEN /\ listeners[notified'[Len(notified')]] = "raises"
                  /\ result' = ListenerRaised
             ELSE /\ notified' = InRegistrationOrder(listeners)
                  /\ result' = ReturnedNone
    /\ listeners' # listeners =>
          /\ \E kind \in ListenerKinds : listeners' = Append(listeners, kind)
          /\ UNCHANGED <<events, notified>>

C37_LogEvent == [][C37_AtTheCall]_vars

\* log_event appended a second event and called the first listener, which
\* raised: the listener registered after it was not called
C37_Witness ==
    /\ last_call.op = "log_event"
    /\ listeners = <<"raises", "returns">>
    /\ Len(events) = 2
    /\ notified = <<1>>
    /\ result = ListenerRaised

\* -------------------------------------------------------------------- C38
\* a step that calls temp_context with an id the manager holds a context for
EntersOnHeld ==
    /\ within = ""
    /\ last_call'.op = "temp_context"
    /\ last_call'.context_id \in Ids(contexts)

\* a step on which a with-block of temp_context is left
LeavesBlock == within # "" /\ within' = ""

\* entering replaces the context held under the id by an empty one of
\* version 1, in memory and, when contexts are saved, in its file; leaving
\* deletes the context and its file
C38_AtTheEnds ==
    /\ EntersOnHeld =>
          LET id == last_call'.context_id
          IN  /\ Context(contexts', id) = NewContext(id, <<>>)
              /\ Ids(contexts') = Ids(contexts)
              /\ (auto_save /\ dir_exists) =>
                    /\ within' = id
                    /\ files'[id].exists
                    /\ files'[id].saved = NewContext(id, <<>>)
              /\ ~auto_save => within' = id /\ files'[id] = files[id]
    /\ LeavesBlock =>
          /\ within \notin Ids(contexts')
          /\ ~files'[within].exists
          /\ Ids(contexts') = Ids(contexts) \ {within}

\* inside the block the context is the one temp_context made: version 1
C38_InTheBlock ==
    within # "" =>
        /\ within \in Ids(contexts)
        /\ Context(contexts, within).version = 1

\* C38: temp_context(id) used with an id that already names an existing
\* context does not preserve that context: entering replaces it with an
\* empty version-1 context and leaving deletes it, so the pre-existing
\* context and its stored file are gone after the block.
C38_TempContextOnExistingId == []C38_InTheBlock /\ [][C38_AtTheEnds]_vars

\* a block on "c1" was left: the context, which had been updated to version
\* 2 and saved, and its file are gone
C38_Witness ==
    /\ last_call.op = "temp_context_exit"
    /\ last_call.context_id = "c1"
    /\ auto_save /\ dir_exists
    /\ \E i \in 1..Len(context_history) :
          /\ context_history[i].context_id = "c1"
          /\ context_history[i].version = 2
    /\ "c1" \notin Ids(contexts)
    /\ ~files["c1"].exists

====
